---- MODULE Spec2Model ----
(***************************************************************************)
(* Model of the round engine of packages/foundry/contracts:                *)
(*   RoundOrchestrator.sol, LBP.sol, PositionToken.sol,                    *)
(*   LinearBondingCurve.sol.                                               *)
(*                                                                         *)
(* Every public call is one atomic action (a transaction): it either       *)
(* applies all its writes or reverts and leaves the contracts' storage     *)
(* unchanged, so a reverted call is a stuttering step.  The variable ev    *)
(* records the last call that succeeded: its name, its return value and    *)
(* what it emitted.                                                        *)
(*                                                                         *)
(* Amounts are in model units: the 1e18 fixed-point unit of the contracts  *)
(* does not fit the integers of the model checker, so PRECISION and the    *)
(* curve parameters are scaled down; the formulas are the contracts'.      *)
(***************************************************************************)
EXTENDS Integers, Sequences, FiniteSets, TLC

(***************************************************************************)
(* Bounds of the model.                                                    *)
(***************************************************************************)
MaxPools  == 2      \* LBPs deployed over the whole run
MaxRounds == 2      \* highest round id that startRound may open
MaxTicks  == 1      \* number of clock steps
WalletInit == 2     \* ETH each trader starts with
MaxSmallElapsed == 100  \* elapsed times 0 .. MaxSmallElapsed are all tried
MaxDecaySteps == 10     \* elapsed multiples of DECAY_TIMESCALE tried
MaxOwnedSupply == 12    \* token supplies 1 .. MaxOwnedSupply of the pool queried
MaxCurveCalls == 6      \* successful direct calls of a curve, one per block
MaxSwapWallet == 40     \* ETH each trader starts with when only swaps are made
MaxSwapCalls == 4       \* successful swaps of the pool traded alone, one per block

(***************************************************************************)
(* Program constants.                                                      *)
(***************************************************************************)
PRECISION        == 1000    \* 1e18 in the contracts
PERCENTAGE_BASE  == 10000
MIN_POSITION_ETH == 5       \* 0.0001 ether
MAX_POSITION_ETH == 10      \* 100 ether
MIN_DURATION     == 600
MAX_DURATION     == 86400
SWAP_FEE_BPS     == 500     \* SWAP_FEE_PERCENTAGE / 1e13
START_WEIGHT     == 9091
DECAY_TIMESCALE  == 9600
BASE_PRICE       == 1       \* 1e15 = PRECISION / 1000
SLOPE            == 2       \* 1e12

(***************************************************************************)
(* Addresses.                                                              *)
(***************************************************************************)
ZERO  == "zero"             \* address(0)
ORCH  == "orch"             \* the RoundOrchestrator
LBPA  == "lbp"              \* a pool's own address, in its token's ledger
OWNER == "owner"            \* owner of the orchestrator
Users == {"u1", "u2"}     \* the traders
CREATOR == "creator"      \* creates the positions; funded for all of them
Callers == Users \cup {OWNER}
TokenAddrs == Users \cup {ORCH, LBPA}

PoolIds  == 1 .. MaxPools
RoundIds == 1 .. MaxRounds
NOPOOL   == 0               \* address(0) as an LBP address
NOCURVE  == 0               \* address(0) as a curve address

(***************************************************************************)
(* Inputs the environment draws from.                                      *)
(***************************************************************************)
TickStep      == 9600
Durations     == {MIN_DURATION - 1, TickStep, MAX_DURATION + 1}
TokenAmounts  == {0, 100}
CreateValues  == {MIN_POSITION_ETH - 1, MAX_POSITION_ETH, MAX_POSITION_ETH + 1}
BuyValues     == {0, 2}
DepositValues == {0, 2}

VARIABLES
    now,                    \* block.timestamp
    currentRoundId,         \* RoundOrchestrator.currentRoundId
    roundIdToRound,         \* RoundOrchestrator.roundIdToRound
    lbpAddressToPosition,   \* RoundOrchestrator.lbpAddressToPosition
    lbp,                    \* storage of every LBP
    pt,                     \* storage of every PositionToken
    bc,                     \* storage of every LinearBondingCurve
    wallet,                 \* ETH balance of the users
    orchEth,                \* ETH balance of the orchestrator
    ev                      \* the last successful call: return value, events

state == <<now, currentRoundId, roundIdToRound, lbpAddressToPosition,
           lbp, pt, bc, wallet, orchEth>>
vars  == <<now, currentRoundId, roundIdToRound, lbpAddressToPosition,
           lbp, pt, bc, wallet, orchEth, ev>>

(***************************************************************************)
(* Helpers on sequences.                                                   *)
(***************************************************************************)
RECURSIVE SumSeq(_)
SumSeq(s) == IF Len(s) = 0 THEN 0 ELSE Head(s) + SumSeq(Tail(s))

RECURSIVE SumOver(_, _)
SumOver(f, S) ==
    IF S = {} THEN 0
    ELSE LET x == CHOOSE y \in S : TRUE IN f[x] + SumOver(f, S \ {x})

Range(s) == {s[i] : i \in 1 .. Len(s)}

(***************************************************************************)
(* LBP: pure functions.                                                    *)
(***************************************************************************)
\* variant: no floor at 1
getCurrentWeightsMut(startTime, t) ==
    LET elapsed == t - startTime
        numerator == START_WEIGHT * DECAY_TIMESCALE
        denom == DECAY_TIMESCALE + elapsed
        w0 == IF elapsed = 0 THEN START_WEIGHT
              ELSE IF denom = 0 THEN 1
              ELSE numerator \div denom
        weightToken == IF w0 > 10000 THEN 10000 ELSE w0
    IN <<weightToken, 10000 - weightToken>>

\* LBP.getCurrentWeights, as <<weightToken, weightEth>> at block time t
getCurrentWeights(startTime, t) ==
    LET elapsed == t - startTime
        numerator == START_WEIGHT * DECAY_TIMESCALE
        denom == DECAY_TIMESCALE + elapsed
        w0 == IF elapsed = 0 THEN START_WEIGHT
              ELSE IF denom = 0 THEN 1
              ELSE IF numerator \div denom = 0 THEN 1
              ELSE numerator \div denom
        weightToken == IF w0 > 10000 THEN 10000 ELSE w0
    IN <<weightToken, 10000 - weightToken>>

\* LBP._calculatePrice
calculatePrice(reserveETH, reserveToken, weightToken, weightEth) ==
    (((reserveETH * PRECISION) \div reserveToken) * weightToken) \div weightEth

\* LBP.getCurrentPrice of pool record l at block time t
lbpCurrentPrice(l, t) ==
    IF l.positionTokenAmount = 0 THEN 0
    ELSE LET w == getCurrentWeights(l.startTime, t)
         IN calculatePrice(l.ethAmount, l.positionTokenAmount, w[1], w[2])

\* variant: the weights are not applied
calculateSwapAmountMut(reserveIn, reserveOut, weightIn, weightOut, amountIn) ==
    LET newReserveIn == reserveIn + amountIn
        ratio == (reserveIn * PRECISION) \div newReserveIn
    IN IF ratio >= PRECISION THEN 0
       ELSE (reserveOut * (PRECISION - ratio)) \div PRECISION

\* LBP._calculateSwapAmount
calculateSwapAmount(reserveIn, reserveOut, weightIn, weightOut, amountIn) ==
    LET newReserveIn == reserveIn + amountIn
        ratio == (reserveIn * PRECISION) \div newReserveIn
        weightRatio == (weightIn * PRECISION) \div weightOut
        adjustedRatio == (ratio * weightRatio) \div PRECISION
    IN IF adjustedRatio >= PRECISION THEN 0
       ELSE (reserveOut * (PRECISION - adjustedRatio)) \div PRECISION

(***************************************************************************)
(* LinearBondingCurve: pure functions on a curve record c.                 *)
(***************************************************************************)
\* LinearBondingCurve.getCurrentPrice
bcCurrentPrice(c) == c.basePrice + (c.slope * c.totalSupply) \div PRECISION

\* LinearBondingCurve.sqrt (Babylonian iteration)
RECURSIVE sqrtLoop(_, _, _)
sqrtLoop(x, y, z) ==
    IF z < y THEN sqrtLoop(x, z, (x \div z + z) \div 2) ELSE y

sqrt(x) == IF x = 0 THEN 0 ELSE sqrtLoop(x, x, (x + 1) \div 2)

\* LinearBondingCurve.calculateBctAmount
calculateBctAmount(c, ethAmount) ==
    IF ethAmount = 0 THEN 0
    ELSE LET currentSupply == c.totalSupply
             a == c.slope \div 2
             b == c.basePrice + (c.slope * currentSupply) \div PRECISION
         IN IF a = 0 \/ b * PRECISION > a * currentSupply
            THEN (ethAmount * PRECISION) \div b
            ELSE LET discriminant == b * b + (4 * a * ethAmount) \div PRECISION
                     sqrtDiscriminant == sqrt(discriminant * PRECISION)
                 IN ((sqrtDiscriminant - b * PRECISION) * PRECISION) \div (2 * a)

\* LinearBondingCurve.calculateEthAmount (the caller checks bctAmount <= supply)
calculateEthAmount(c, bctAmount) ==
    IF bctAmount = 0 THEN 0
    ELSE LET currentSupply == c.totalSupply
             priceStart == c.basePrice + (c.slope * currentSupply) \div PRECISION
             priceEnd == c.basePrice + (c.slope * (currentSupply - bctAmount)) \div PRECISION
             averagePrice == (priceStart + priceEnd) \div 2
         IN (bctAmount * averagePrice) \div PRECISION

(***************************************************************************)
(* PositionToken.                                                          *)
(***************************************************************************)
\* variant: isHolder is not consulted
ptUpdateMut(tok, from, to, value) ==
    LET bal1 == IF from = ZERO THEN tok.balances
                ELSE [tok.balances EXCEPT ![from] = @ - value]
        bal2 == IF to = ZERO THEN bal1 ELSE [bal1 EXCEPT ![to] = @ + value]
        track == /\ to # ZERO
                 /\ value > 0
                 /\ ~(from = ZERO /\ Len(tok.holders) = 0)
    IN [tok EXCEPT !.balances = bal2,
                   !.totalSupply = IF from = ZERO THEN @ + value
                                   ELSE IF to = ZERO THEN @ - value ELSE @,
                   !.holders = IF track THEN Append(@, to) ELSE @,
                   !.isHolder = IF track THEN @ \cup {to} ELSE @]

\* PositionToken._update: the ERC20 balance update, then the holder registry
ptUpdate(tok, from, to, value) ==
    LET bal1 == IF from = ZERO THEN tok.balances
                ELSE [tok.balances EXCEPT ![from] = @ - value]
        bal2 == IF to = ZERO THEN bal1 ELSE [bal1 EXCEPT ![to] = @ + value]
        track == /\ to # ZERO
                 /\ to \notin tok.isHolder
                 /\ value > 0
                 /\ ~(from = ZERO /\ Len(tok.holders) = 0)
    IN [tok EXCEPT !.balances = bal2,
                   !.totalSupply = IF from = ZERO THEN @ + value
                                   ELSE IF to = ZERO THEN @ - value ELSE @,
                   !.holders = IF track THEN Append(@, to) ELSE @,
                   !.isHolder = IF track THEN @ \cup {to} ELSE @]

\* ERC20.transfer / transferFrom of a PositionToken (the allowance is granted
\* by the sender right before the call, as in the tests)
ptTransfer(tok, from, to, value) ==
    IF from # ZERO /\ to # ZERO /\ tok.balances[from] >= value
    THEN [ok |-> TRUE, tok |-> ptUpdate(tok, from, to, value)]
    ELSE [ok |-> FALSE, tok |-> tok]

\* PositionToken constructor: _mint(initialOwner, initialSupply)
ptConstruct(initialSupply, initialOwner) ==
    ptUpdate([totalSupply |-> 0,
              balances |-> [a \in TokenAddrs |-> 0],
              holders |-> <<>>,
              isHolder |-> {}],
             ZERO, initialOwner, initialSupply)

BlankToken ==
    [totalSupply |-> 0, balances |-> [a \in TokenAddrs |-> 0],
     holders |-> <<>>, isHolder |-> {}]

(***************************************************************************)
(* LinearBondingCurve: state-changing functions.  c.eth is the contract's  *)
(* ETH balance, c.owner the Ownable owner.                                 *)
(***************************************************************************)
\* LinearBondingCurve constructor
bcConstruct(basePrice, slope, initialOwner) ==
    [deployed |-> TRUE, basePrice |-> basePrice, slope |-> slope,
     owner |-> initialOwner, totalSupply |-> 0,
     balances |-> [a \in Users |-> 0],
     liquidationBonusPool |-> 0, eth |-> 0, entered |-> FALSE]

BlankCurve ==
    [deployed |-> FALSE, basePrice |-> 0, slope |-> 0, owner |-> ZERO,
     totalSupply |-> 0, balances |-> [a \in Users |-> 0],
     liquidationBonusPool |-> 0, eth |-> 0, entered |-> FALSE]

\* variant: the modifier lets a call in while another one is executing
nonReentrantMut(x) == TRUE

\* ReentrancyGuard.nonReentrant on the functions of contract x (a pool or a
\* curve): the call reverts while x.entered, which the modifier sets for the
\* duration of a call
nonReentrant(x) == ~x.entered

\* ERC20._mint of the curve token
bcMint(c, to, amount) ==
    [c EXCEPT !.balances[to] = @ + amount, !.totalSupply = @ + amount]

\* variant: the ETH sent with the call is not kept by the curve
bcMintBctForMut(c, recipient, ethAmount) ==
    LET bctAmount == calculateBctAmount(c, ethAmount)
    IN IF ethAmount > 0 /\ bctAmount > 0
       THEN [ok |-> TRUE, ret |-> bctAmount,
             c |-> bcMint(c, recipient, bctAmount)]
       ELSE [ok |-> FALSE, ret |-> 0, c |-> c]

\* LinearBondingCurve.mintBctFor, called with msg.value = ethAmount
bcMintBctFor(c, recipient, ethAmount) ==
    LET bctAmount == calculateBctAmount(c, ethAmount)
    IN IF nonReentrant(c) /\ ethAmount > 0 /\ bctAmount > 0
       THEN [ok |-> TRUE, ret |-> bctAmount,
             c |-> [bcMint(c, recipient, bctAmount) EXCEPT !.eth = @ + ethAmount]]
       ELSE [ok |-> FALSE, ret |-> 0, c |-> c]

\* LinearBondingCurve.burnBct
bcBurnBct(c, sender, bctAmount) ==
    LET ethAmount == calculateEthAmount(c, bctAmount)
    IN IF /\ nonReentrant(c)
          /\ bctAmount > 0
          /\ c.balances[sender] >= bctAmount
          /\ ethAmount > 0
          /\ ethAmount <= c.eth
       THEN [ok |-> TRUE, ret |-> ethAmount,
             c |-> [c EXCEPT !.balances[sender] = @ - bctAmount,
                             !.totalSupply = @ - bctAmount,
                             !.eth = @ - ethAmount]]
       ELSE [ok |-> FALSE, ret |-> 0, c |-> c]

\* variant: the deposit also raises the base price
bcDepositEthMut(c, value) ==
    IF value > 0
    THEN [ok |-> TRUE,
          c |-> [c EXCEPT !.liquidationBonusPool = @ + value, !.eth = @ + value,
                          !.basePrice = @ + value]]
    ELSE [ok |-> FALSE, c |-> c]

\* LinearBondingCurve.depositEth, called with msg.value = value
bcDepositEth(c, value) ==
    IF nonReentrant(c) /\ value > 0
    THEN [ok |-> TRUE,
          c |-> [c EXCEPT !.liquidationBonusPool = @ + value, !.eth = @ + value]]
    ELSE [ok |-> FALSE, c |-> c]

\* variant: the amount of each winner is computed from the bonus pool at
\* the supply the earlier mints have left
RECURSIVE bcMintSharesMut(_, _, _, _, _)
bcMintSharesMut(c, winners, shares, totalBct, i) ==
    IF i > Len(winners) THEN c
    ELSE bcMintSharesMut(
             bcMint(c, winners[i],
                    (calculateBctAmount(c, c.liquidationBonusPool) * shares[i])
                        \div 10000),
             winners, shares, totalBct, i + 1)

\* the minting loop of distributeToWinners
RECURSIVE bcMintShares(_, _, _, _, _)
bcMintShares(c, winners, shares, totalBct, i) ==
    IF i > Len(winners) THEN c
    ELSE bcMintShares(bcMint(c, winners[i], (totalBct * shares[i]) \div 10000),
                      winners, shares, totalBct, i + 1)

\* LinearBondingCurve.distributeToWinners
bcDistributeToWinners(c, sender, winners, shares) ==
    IF /\ sender = c.owner
       /\ nonReentrant(c)
       /\ Len(winners) = Len(shares)
       /\ Len(winners) > 0
       /\ c.liquidationBonusPool > 0
    THEN LET totalBct == calculateBctAmount(c, c.liquidationBonusPool)
         IN [ok |-> TRUE, ret |-> totalBct, totalEth |-> c.liquidationBonusPool,
             c |-> [bcMintShares(c, winners, shares, totalBct, 1)
                        EXCEPT !.liquidationBonusPool = 0]]
    ELSE [ok |-> FALSE, ret |-> 0, totalEth |-> 0, c |-> c]

(***************************************************************************)
(* LBP: state-changing functions.  l is the pool's storage, tok its        *)
(* PositionToken, c the curve at l.BONDING_CURVE.  Each returns ok = FALSE *)
(* when the call reverts.                                                  *)
(***************************************************************************)
BlankLbp ==
    [deployed |-> FALSE, BONDING_CURVE |-> NOCURVE, startTime |-> 0,
     swapFee |-> 0, positionTokenAmount |-> 0, ethAmount |-> 0,
     initialPrice |-> 0, liquidationPrice |-> 0,
     settled |-> FALSE, liquidated |-> FALSE, entered |-> FALSE]

\* variant: the constructor does not pull the tokens from the orchestrator
lbpConstructMut(tok, tokenAmount, swapFee, bondingCurve, value, t) ==
    LET initialPrice == calculatePrice(value, tokenAmount, START_WEIGHT,
                                       10000 - START_WEIGHT)
    IN IF bondingCurve # NOCURVE /\ tokenAmount > 0 /\ value > 0
       THEN [ok |-> TRUE, tok |-> tok,
             l |-> [deployed |-> TRUE, BONDING_CURVE |-> bondingCurve,
                    startTime |-> t, swapFee |-> swapFee,
                    positionTokenAmount |-> tokenAmount, ethAmount |-> value,
                    initialPrice |-> initialPrice,
                    liquidationPrice |-> initialPrice \div 10,
                    settled |-> FALSE, liquidated |-> FALSE,
                    entered |-> FALSE]]
       ELSE [ok |-> FALSE, tok |-> tok, l |-> BlankLbp]

\* LBP constructor, called with msg.value = value at block time t; the
\* orchestrator has approved tokenAmount of tok to the pool
lbpConstruct(tok, tokenAmount, swapFee, bondingCurve, value, t) ==
    LET tr == ptTransfer(tok, ORCH, LBPA, tokenAmount)
        initialPrice == calculatePrice(value, tokenAmount, START_WEIGHT,
                                       10000 - START_WEIGHT)
    IN IF bondingCurve # NOCURVE /\ tokenAmount > 0 /\ value > 0 /\ tr.ok
       THEN [ok |-> TRUE, tok |-> tr.tok,
             l |-> [deployed |-> TRUE, BONDING_CURVE |-> bondingCurve,
                    startTime |-> t, swapFee |-> swapFee,
                    positionTokenAmount |-> tokenAmount, ethAmount |-> value,
                    initialPrice |-> initialPrice,
                    liquidationPrice |-> initialPrice \div 10,
                    settled |-> FALSE, liquidated |-> FALSE,
                    entered |-> FALSE]]
       ELSE [ok |-> FALSE, tok |-> tok, l |-> BlankLbp]

\* variant: the three requires at the head of swap are missing
swapGuardMut(l) == TRUE

\* LBP.swap: the requires common to both directions
swapGuard(l) ==
    /\ ~l.settled
    /\ ~l.liquidated
    /\ l.positionTokenAmount > 0 /\ l.ethAmount > 0

\* LBP.swap, buyToken branch, called by sender with msg.value = value
lbpSwapBuy(l, tok, sender, value, t) ==
    LET w == getCurrentWeights(l.startTime, t)
        amountIn == value
        feeAmount == (amountIn * l.swapFee) \div 10000
        amountInAfterFee == amountIn - feeAmount
        amountOut == calculateSwapAmount(l.ethAmount, l.positionTokenAmount,
                                         w[2], w[1], amountInAfterFee)
        tr == ptTransfer(tok, LBPA, sender, amountOut)
    IN IF /\ nonReentrant(l)
          /\ swapGuard(l)
          /\ value > 0
          /\ amountOut <= l.positionTokenAmount
          /\ tr.ok
       THEN [ok |-> TRUE, ret |-> amountOut, tok |-> tr.tok,
             l |-> [l EXCEPT !.ethAmount = @ + amountIn,
                             !.positionTokenAmount = @ - amountOut]]
       ELSE [ok |-> FALSE, ret |-> 0, tok |-> tok, l |-> l]

\* LBP.swap, sell branch, called by sender with amountIn position tokens
lbpSwapSell(l, tok, c, sender, amountIn, t) ==
    LET w == getCurrentWeights(l.startTime, t)
        feeAmount == (amountIn * l.swapFee) \div 10000
        amountInAfterFee == amountIn - feeAmount
        amountOut == calculateSwapAmount(l.positionTokenAmount, l.ethAmount,
                                         w[1], w[2], amountInAfterFee)
        tr == ptTransfer(tok, sender, LBPA, amountIn)
        mint == bcMintBctFor(c, sender, amountOut)
    IN IF /\ nonReentrant(l)
          /\ swapGuard(l)
          /\ amountIn > 0
          /\ amountOut > 0
          /\ amountOut <= l.ethAmount
          /\ tr.ok
          /\ mint.ok
       THEN [ok |-> TRUE, ret |-> mint.ret, tok |-> tr.tok, c |-> mint.c,
             l |-> [l EXCEPT !.positionTokenAmount = @ + amountIn,
                             !.ethAmount = @ - amountOut]]
       ELSE [ok |-> FALSE, ret |-> 0, tok |-> tok, c |-> c, l |-> l]

\* variant: anyone may call
onlyOrchestratorMut(sender) == TRUE

\* LBP: require(msg.sender == ORCHESTRATOR)
onlyOrchestrator(sender) == sender = ORCH

\* variant: the remainder is dropped
lbpSharesMut(floors) == floors

\* settleWinner: the remainder goes to the last winner
lbpShares(floors) ==
    LET winnerCount == Len(floors)
        totalShares == SumSeq(floors)
    IN IF totalShares # 10000 /\ winnerCount > 0
       THEN [floors EXCEPT ![winnerCount] = @ + (10000 - totalShares)]
       ELSE floors

\* variant: the reserve is not zeroed
settleWinnerStoreMut(l) == [l EXCEPT !.settled = TRUE]

\* settleWinner: the storage writes
settleWinnerStore(l) == [l EXCEPT !.settled = TRUE, !.ethAmount = 0]

\* variant: a liquidated pool is also flagged settled, as emergencyExit does
liquidateStoreMut(l) ==
    [l EXCEPT !.liquidated = TRUE, !.settled = TRUE, !.ethAmount = 0]

\* liquidatePool: the storage writes
liquidateStore(l) == [l EXCEPT !.liquidated = TRUE, !.ethAmount = 0]

\* settleWinner: the holders that become winners, in the order of the list
RECURSIVE lbpWinners(_, _)
lbpWinners(tok, i) ==
    IF i > Len(tok.holders) THEN <<>>
    ELSE IF tok.holders[i] # LBPA /\ tok.balances[tok.holders[i]] > 0
         THEN <<tok.holders[i]>> \o lbpWinners(tok, i + 1)
         ELSE lbpWinners(tok, i + 1)

\* settleWinner: the share of each winner before the remainder is added
lbpFloorShares(tok, winners, ownedSupply) ==
    [i \in 1 .. Len(winners) |->
        (tok.balances[winners[i]] * 10000) \div ownedSupply]

\* LBP.settleWinner, called by sender
lbpSettleWinner(l, tok, c, sender) ==
    LET ownedSupply == tok.totalSupply - l.positionTokenAmount
        winners == lbpWinners(tok, 1)
        winnerCount == Len(winners)
        floors == lbpFloorShares(tok, winners, ownedSupply)
        totalShares == SumSeq(floors)
        shares == lbpShares(floors)
        dep == bcDepositEth(c, l.ethAmount)
    IN IF /\ onlyOrchestrator(sender)
          /\ nonReentrant(l)
          /\ ~l.settled
          /\ ~l.liquidated
          /\ l.positionTokenAmount < tok.totalSupply
          /\ winnerCount > 0
          /\ totalShares <= 10000       \* 10000 - totalShares must not underflow
          /\ dep.ok
       THEN [ok |-> TRUE, winners |-> winners, shares |-> shares,
             ethSent |-> l.ethAmount, c |-> dep.c,
             l |-> settleWinnerStore(l)]
       ELSE [ok |-> FALSE, winners |-> <<>>, shares |-> <<>>, ethSent |-> 0,
             c |-> c, l |-> l]

\* variant: the price require is missing
lbpLiquidatePoolMut(l, c, t) ==
    LET dep == bcDepositEth(c, l.ethAmount)
    IN IF /\ ~l.liquidated
          /\ ~l.settled
          /\ l.positionTokenAmount > 0 /\ l.ethAmount > 0
          /\ dep.ok
       THEN [ok |-> TRUE, c |-> dep.c, l |-> liquidateStore(l)]
       ELSE [ok |-> FALSE, c |-> c, l |-> l]

\* LBP.liquidatePool, called by anyone at block time t
lbpLiquidatePool(l, c, t) ==
    LET dep == bcDepositEth(c, l.ethAmount)
    IN IF /\ nonReentrant(l)
          /\ ~l.liquidated
          /\ ~l.settled
          /\ l.positionTokenAmount > 0 /\ l.ethAmount > 0
          /\ lbpCurrentPrice(l, t) <= l.liquidationPrice
          /\ dep.ok
       THEN [ok |-> TRUE, c |-> dep.c, l |-> liquidateStore(l)]
       ELSE [ok |-> FALSE, c |-> c, l |-> l]

\* LBP.forceLiquidate, called by sender: liquidatePool without the price
\* precondition, for the orchestrator only
lbpForceLiquidate(l, c, sender) ==
    LET dep == bcDepositEth(c, l.ethAmount)
    IN IF /\ onlyOrchestrator(sender)
          /\ nonReentrant(l)
          /\ ~l.liquidated
          /\ ~l.settled
          /\ dep.ok
       THEN [ok |-> TRUE, c |-> dep.c,
             l |-> [l EXCEPT !.liquidated = TRUE, !.ethAmount = 0]]
       ELSE [ok |-> FALSE, c |-> c, l |-> l]

\* LBP.emergencyExit, called by sender
lbpEmergencyExit(l, sender) ==
    IF onlyOrchestrator(sender) /\ nonReentrant(l) /\ ~l.settled /\ ~l.liquidated
    THEN [ok |-> TRUE, ret |-> l.ethAmount,
          l |-> [l EXCEPT !.settled = TRUE, !.ethAmount = 0]]
    ELSE [ok |-> FALSE, ret |-> 0, l |-> l]

(***************************************************************************)
(* RoundOrchestrator.                                                      *)
(***************************************************************************)
BlankRound ==
    [startTime |-> 0, duration |-> 0, endTime |-> 0, lbps |-> <<>>,
     winnerLbp |-> NOPOOL, settled |-> FALSE, bondingCurve |-> NOCURVE]

\* the address of the next contract a `new` deploys
NextCurve(B) == Cardinality({c \in DOMAIN B : B[c].deployed}) + 1
NextPool(L)  == Cardinality({p \in DOMAIN L : L[p].deployed}) + 1

\* variant: a liquidated pool is not treated apart
getOwnedSupplyMut(L, T, p) == T[p].totalSupply - L[p].positionTokenAmount

\* RoundOrchestrator.getOwnedSupply, on pool storage L and token storage T
getOwnedSupply(L, T, p) ==
    IF L[p].liquidated THEN 0
    ELSE T[p].totalSupply - L[p].positionTokenAmount

\* variant: >= instead of >, the last maximum wins
RECURSIVE selectWinnerMut(_, _, _, _, _, _)
selectWinnerMut(L, T, lbps, i, highestOwned, winnerLbp) ==
    IF i > Len(lbps) THEN winnerLbp
    ELSE LET ownedSupply == getOwnedSupply(L, T, lbps[i])
         IN IF ownedSupply >= highestOwned
            THEN selectWinnerMut(L, T, lbps, i + 1, ownedSupply, lbps[i])
            ELSE selectWinnerMut(L, T, lbps, i + 1, highestOwned, winnerLbp)

\* _settleRound, first loop: the winner after scanning lbps[i..]
RECURSIVE selectWinner(_, _, _, _, _, _)
selectWinner(L, T, lbps, i, highestOwned, winnerLbp) ==
    IF i > Len(lbps) THEN winnerLbp
    ELSE LET ownedSupply == getOwnedSupply(L, T, lbps[i])
         IN IF ownedSupply > highestOwned
            THEN selectWinner(L, T, lbps, i + 1, ownedSupply, lbps[i])
            ELSE selectWinner(L, T, lbps, i + 1, highestOwned, winnerLbp)

\* variant: the distribution is written to the curve of the first round
settleDistributedMut(round, w, p, sw, bc1, di) ==
    IF ~di.ok THEN [w EXCEPT !.ok = FALSE]
    ELSE [ok |-> TRUE,
          lbp |-> [w.lbp EXCEPT ![p] = sw.l],
          bc |-> [bc1 EXCEPT ![1] = di.c],
          winners |-> sw.winners, shares |-> sw.shares,
          dist |-> w.dist + di.totalEth,
          order |-> w.order \o <<"settleWinner", "distribute">>]

\* _settleRound, second loop: distributeToWinners has returned di on the
\* curves bc1 that settleWinner left
settleDistributed(round, w, p, sw, bc1, di) ==
    IF ~di.ok THEN [w EXCEPT !.ok = FALSE]
    ELSE [ok |-> TRUE,
          lbp |-> [w.lbp EXCEPT ![p] = sw.l],
          bc |-> [bc1 EXCEPT ![round.bondingCurve] = di.c],
          winners |-> sw.winners, shares |-> sw.shares,
          dist |-> w.dist + di.totalEth,
          order |-> w.order \o <<"settleWinner", "distribute">>]

\* _settleRound, second loop, winner branch: settleWinner of pool p, whose
\* curve is cid, has returned sw
settleWinnerReturned(round, w, p, cid, sw) ==
    LET bc1 == [w.bc EXCEPT ![cid] = sw.c]
    IN IF ~sw.ok THEN [w EXCEPT !.ok = FALSE]
       ELSE IF Len(sw.winners) > 0
       THEN settleDistributed(round, w, p, sw, bc1,
                bcDistributeToWinners(bc1[round.bondingCurve], ORCH,
                                      sw.winners, sw.shares))
       ELSE [w EXCEPT !.lbp[p] = sw.l, !.bc = bc1,
                      !.order = @ \o <<"settleWinner">>]

\* _settleRound, second loop, other branch: forceLiquidate of pool p has
\* returned fl
forceLiquidateReturned(w, p, cid, fl) ==
    IF ~fl.ok THEN [w EXCEPT !.ok = FALSE]
    ELSE [w EXCEPT !.lbp[p] = fl.l, !.bc[cid] = fl.c,
                   !.order = @ \o <<"forceLiquidate">>]

\* _settleRound, second loop: one iteration, on pool p
settleLoopBody(round, T, winnerLbp, w, p) ==
    LET cid == w.lbp[p].BONDING_CURVE
    IN IF p = winnerLbp
       THEN settleWinnerReturned(round, w, p, cid,
                lbpSettleWinner(w.lbp[p], T[p], w.bc[cid], ORCH))
       ELSE IF ~w.lbp[p].liquidated
       THEN forceLiquidateReturned(w, p, cid,
                lbpForceLiquidate(w.lbp[p], w.bc[cid], ORCH))
       ELSE w

\* _settleRound, second loop from index i on; w carries the storage written
\* so far, the winners and shares settleWinner returned and the totalEth of
\* the DistributedToWinners event; w.ok = FALSE when a call reverted
RECURSIVE settleLoop(_, _, _, _, _)
settleLoop(round, T, winnerLbp, i, w) ==
    IF ~w.ok \/ i > Len(round.lbps) THEN w
    ELSE settleLoop(round, T, winnerLbp, i + 1,
                    settleLoopBody(round, T, winnerLbp, w, round.lbps[i]))

\* variant: a call that reverted inside the loop is caught and the
\* settlement is completed with what had been written until then
settleRoundResultMut(R, rid, winnerLbp, w) ==
    [ok |-> TRUE, did |-> TRUE, lbp |-> w.lbp, bc |-> w.bc,
     winners |-> w.winners, shares |-> w.shares, dist |-> w.dist,
     order |-> w.order, winnerLbp |-> winnerLbp,
     rounds |-> [R EXCEPT ![rid].winnerLbp = winnerLbp,
                          ![rid].settled = TRUE]]

\* _settleRound: what it leaves once the second loop has returned w
settleRoundResult(R, rid, winnerLbp, w) ==
    [ok |-> w.ok, did |-> TRUE, lbp |-> w.lbp, bc |-> w.bc,
     winners |-> w.winners, shares |-> w.shares, dist |-> w.dist,
     order |-> w.order, winnerLbp |-> winnerLbp,
     rounds |-> [R EXCEPT ![rid].winnerLbp = winnerLbp,
                          ![rid].settled = TRUE]]

\* RoundOrchestrator._settleRound on round rid: the storage after it, or
\* ok = FALSE when a call in it reverts
settleRoundInternal(R, L, T, B, rid) ==
    LET winnerLbp == selectWinner(L, T, R[rid].lbps, 1, 0, NOPOOL)
    IN settleRoundResult(R, rid, winnerLbp,
           settleLoop(R[rid], T, winnerLbp, 1,
                      [ok |-> TRUE, lbp |-> L, bc |-> B, winners |-> <<>>,
                       shares |-> <<>>, dist |-> 0, order |-> <<>>]))

\* no settlement has run: the storage is as it was
noSettle(R, L, B, ok) ==
    [ok |-> ok, lbp |-> L, bc |-> B, winners |-> <<>>, shares |-> <<>>,
     dist |-> 0, order |-> <<>>, winnerLbp |-> NOPOOL, rounds |-> R,
     did |-> FALSE]

\* variant: the end-time require is missing
settleRoundGuardMut(R, rid, t) == ~R[rid].settled

\* RoundOrchestrator.settleRound: the two requires
settleRoundGuard(R, rid, t) == t >= R[rid].endTime /\ ~R[rid].settled

\* RoundOrchestrator.settleRoundEarly: onlyOwner and the require
settleRoundEarlyGuard(R, rid, caller) == caller = OWNER /\ ~R[rid].settled

\* RoundOrchestrator.settleRound (public): the guards, then _settleRound
settleRoundPublic(R, L, T, B, rid, t) ==
    IF settleRoundGuard(R, rid, t) THEN settleRoundInternal(R, L, T, B, rid)
    ELSE noSettle(R, L, B, FALSE)

\* variant: the "Current round not finished" require is missing
startRoundGuardMut(R, rid, caller, duration, t) ==
    /\ caller = OWNER
    /\ duration >= MIN_DURATION /\ duration <= MAX_DURATION

\* RoundOrchestrator.startRound: onlyOwner and the two requires
startRoundGuard(R, rid, caller, duration, t) ==
    /\ caller = OWNER
    /\ duration >= MIN_DURATION /\ duration <= MAX_DURATION
    /\ t >= R[rid].endTime

\* variant: the auto-settlement is missing
startRoundSettleMut(R, L, T, B, rid, t) == noSettle(R, L, B, TRUE)

\* RoundOrchestrator.startRound: if (!currentRound.settled) settleRound();
\* did = TRUE when the settlement ran
startRoundSettle(R, L, T, B, rid, t) ==
    IF ~R[rid].settled
    THEN [settleRoundPublic(R, L, T, B, rid, t) EXCEPT !.did = TRUE]
    ELSE noSettle(R, L, B, TRUE)

(***************************************************************************)
(* The record of the last call.                                            *)
(***************************************************************************)
Ev(op, ret) ==
    [op |-> op, ret |-> ret, settledRound |-> 0, winnerLbp |-> NOPOOL,
     winners |-> <<>>, shares |-> <<>>, dist |-> 0, order |-> <<>>]

\* a call that ran _settleRound on round rid: the RoundSettled event, the
\* winners and shares settleWinner returned, the totalEth of
\* DistributedToWinners and the order of the calls it made
EvSettle(op, rid, s) ==
    IF s.did
    THEN [op |-> op, ret |-> 0, settledRound |-> rid, winnerLbp |-> s.winnerLbp,
          winners |-> s.winners, shares |-> s.shares,
          dist |-> s.dist, order |-> s.order]
    ELSE Ev(op, 0)

(***************************************************************************)
(* Initial state: the RoundOrchestrator constructor has run at time 0.     *)
(***************************************************************************)
FirstRoundDuration == TickStep

\* the storage the RoundOrchestrator constructor leaves
Constructed ==
    /\ currentRoundId = 1
    /\ roundIdToRound =
         [r \in RoundIds |->
            IF r = 1
            THEN [BlankRound EXCEPT !.duration = FirstRoundDuration,
                                    !.endTime = FirstRoundDuration,
                                    !.bondingCurve = 1]
            ELSE BlankRound]
    /\ lbpAddressToPosition = [p \in PoolIds |-> [roundId |-> 0, creator |-> ZERO]]
    /\ lbp = [p \in PoolIds |-> BlankLbp]
    /\ pt = [p \in PoolIds |-> BlankToken]
    /\ bc = [c \in RoundIds |->
               IF c = 1 THEN bcConstruct(BASE_PRICE, SLOPE, ORCH) ELSE BlankCurve]
    /\ wallet = [u \in Users |-> WalletInit]
    /\ orchEth = 0

Init ==
    /\ now = 0
    /\ Constructed
    /\ ev = Ev("constructor", 0)

(***************************************************************************)
(* Actions: one per public call, plus the clock.                           *)
(***************************************************************************)
Deployed == {p \in PoolIds : lbp[p].deployed}
DeployedCurves == {c \in RoundIds : bc[c].deployed}

\* vm.warp: block.timestamp advances
Tick ==
    /\ now < MaxTicks * TickStep
    /\ now' = now + TickStep
    /\ ev' = Ev("warp", 0)
    /\ UNCHANGED <<currentRoundId, roundIdToRound, lbpAddressToPosition,
                   lbp, pt, bc, wallet, orchEth>>

\* RoundOrchestrator.startRound(duration) called by caller
StartRound(caller, duration) ==
    /\ currentRoundId < MaxRounds
    /\ \E s \in {startRoundSettle(roundIdToRound, lbp, pt, bc, currentRoundId, now)} :
         LET newId == currentRoundId + 1
             newCurve == NextCurve(s.bc)
         IN IF /\ startRoundGuard(roundIdToRound, currentRoundId, caller,
                                  duration, now)
               /\ s.ok
            THEN /\ currentRoundId' = newId
                 /\ roundIdToRound' =
                      [s.rounds EXCEPT ![newId].startTime = now,
                                       ![newId].duration = duration,
                                       ![newId].endTime = now + duration,
                                       ![newId].bondingCurve = newCurve]
                 /\ lbp' = s.lbp
                 /\ bc' = [s.bc EXCEPT ![newCurve] = bcConstruct(BASE_PRICE, SLOPE, ORCH)]
                 /\ ev' = EvSettle("startRound", currentRoundId, s)
                 /\ UNCHANGED <<now, lbpAddressToPosition, pt, wallet, orchEth>>
            ELSE UNCHANGED vars

\* variant: the "Round already ended" require is missing
createPositionGuardMut(round, tokenAmount, value, t) ==
    /\ value >= MIN_POSITION_ETH /\ value <= MAX_POSITION_ETH
    /\ tokenAmount > 0

\* RoundOrchestrator.createPosition: the three requires
createPositionGuard(round, tokenAmount, value, t) ==
    /\ value >= MIN_POSITION_ETH /\ value <= MAX_POSITION_ETH
    /\ tokenAmount > 0
    /\ t < round.endTime

\* RoundOrchestrator.createPosition(name, symbol, tokenAmount, imageURI)
\* called by caller with msg.value = value
CreatePosition(caller, tokenAmount, value) ==
    LET round == roundIdToRound[currentRoundId]
        p == NextPool(lbp)
    IN /\ p <= MaxPools
       /\ \E con \in {lbpConstruct(ptConstruct(tokenAmount, ORCH), tokenAmount,
                                   SWAP_FEE_BPS, round.bondingCurve, value, now)} :
            IF /\ createPositionGuard(round, tokenAmount, value, now)
               /\ con.ok
            THEN /\ pt' = [pt EXCEPT ![p] = con.tok]
                 /\ lbp' = [lbp EXCEPT ![p] = con.l]
                 /\ lbpAddressToPosition' =
                      [lbpAddressToPosition EXCEPT
                          ![p] = [roundId |-> currentRoundId, creator |-> caller]]
                 /\ roundIdToRound' =
                      [roundIdToRound EXCEPT ![currentRoundId].lbps = Append(@, p)]
                 /\ ev' = Ev("createPosition", p)
                 /\ UNCHANGED <<now, currentRoundId, bc, wallet, orchEth>>
            ELSE UNCHANGED vars

\* LBP.swap(0, true) on pool p called by caller with msg.value = value
SwapBuy(caller, p, value) ==
    /\ p \in Deployed
    /\ wallet[caller] >= value
    /\ \E r \in {lbpSwapBuy(lbp[p], pt[p], caller, value, now)} :
         IF r.ok
         THEN /\ lbp' = [lbp EXCEPT ![p] = r.l]
              /\ pt' = [pt EXCEPT ![p] = r.tok]
              /\ wallet' = [wallet EXCEPT ![caller] = @ - value]
              /\ ev' = Ev("swapBuy", r.ret)
              /\ UNCHANGED <<now, currentRoundId, roundIdToRound,
                             lbpAddressToPosition, bc, orchEth>>
         ELSE UNCHANGED vars

\* LBP.swap(amountIn, false) on pool p called by caller
SwapSell(caller, p, amountIn) ==
    LET cid == lbp[p].BONDING_CURVE
    IN /\ p \in Deployed
       /\ \E r \in {lbpSwapSell(lbp[p], pt[p], bc[cid], caller, amountIn, now)} :
            IF r.ok
            THEN /\ lbp' = [lbp EXCEPT ![p] = r.l]
                 /\ pt' = [pt EXCEPT ![p] = r.tok]
                 /\ bc' = [bc EXCEPT ![cid] = r.c]
                 /\ ev' = Ev("swapSell", r.ret)
                 /\ UNCHANGED <<now, currentRoundId, roundIdToRound,
                                lbpAddressToPosition, wallet, orchEth>>
            ELSE UNCHANGED vars

\* RoundOrchestrator.liquidatePosition(p) called by anyone
LiquidatePosition(p) ==
    LET cid == lbp[p].BONDING_CURVE
        round == roundIdToRound[lbpAddressToPosition[p].roundId]
    IN /\ p \in Deployed
       /\ \E r \in {lbpLiquidatePool(lbp[p], bc[cid], now)} :
            IF ~lbp[p].liquidated /\ ~round.settled /\ r.ok
            THEN /\ lbp' = [lbp EXCEPT ![p] = r.l]
                 /\ bc' = [bc EXCEPT ![cid] = r.c]
                 /\ ev' = Ev("liquidatePosition", 0)
                 /\ UNCHANGED <<now, currentRoundId, roundIdToRound,
                                lbpAddressToPosition, pt, wallet, orchEth>>
            ELSE UNCHANGED vars

\* LBP.liquidatePool() on pool p called directly by anyone
LiquidatePool(p) ==
    LET cid == lbp[p].BONDING_CURVE
    IN /\ p \in Deployed
       /\ \E r \in {lbpLiquidatePool(lbp[p], bc[cid], now)} :
            IF r.ok
            THEN /\ lbp' = [lbp EXCEPT ![p] = r.l]
                 /\ bc' = [bc EXCEPT ![cid] = r.c]
                 /\ ev' = Ev("liquidatePool", 0)
                 /\ UNCHANGED <<now, currentRoundId, roundIdToRound,
                                lbpAddressToPosition, pt, wallet, orchEth>>
            ELSE UNCHANGED vars

\* RoundOrchestrator.settleRound() called by anyone
SettleRound ==
    \E s \in {settleRoundPublic(roundIdToRound, lbp, pt, bc, currentRoundId, now)} :
       IF s.ok
       THEN /\ roundIdToRound' = s.rounds
            /\ lbp' = s.lbp
            /\ bc' = s.bc
            /\ ev' = EvSettle("settleRound", currentRoundId, s)
            /\ UNCHANGED <<now, currentRoundId, lbpAddressToPosition, pt,
                           wallet, orchEth>>
       ELSE UNCHANGED vars

\* RoundOrchestrator.settleRoundEarly() called by caller
SettleRoundEarly(caller) ==
    \E s \in {settleRoundInternal(roundIdToRound, lbp, pt, bc, currentRoundId)} :
       IF settleRoundEarlyGuard(roundIdToRound, currentRoundId, caller) /\ s.ok
       THEN /\ roundIdToRound' = s.rounds
            /\ lbp' = s.lbp
            /\ bc' = s.bc
            /\ ev' = EvSettle("settleRoundEarly", currentRoundId, s)
            /\ UNCHANGED <<now, currentRoundId, lbpAddressToPosition, pt,
                           wallet, orchEth>>
       ELSE UNCHANGED vars

\* LinearBondingCurve.depositEth() on curve c called by anyone with value
DepositEth(caller, c, value) ==
    LET r == bcDepositEth(bc[c], value)
    IN /\ c \in DeployedCurves
       /\ wallet[caller] >= value
       /\ IF r.ok
          THEN /\ bc' = [bc EXCEPT ![c] = r.c]
               /\ wallet' = [wallet EXCEPT ![caller] = @ - value]
               /\ ev' = Ev("depositEth", 0)
               /\ UNCHANGED <<now, currentRoundId, roundIdToRound,
                              lbpAddressToPosition, lbp, pt, orchEth>>
          ELSE UNCHANGED vars

\* PositionToken.transfer(to, value) of pool p's token called by caller
Transfer(caller, p, to, value) ==
    LET r == ptTransfer(pt[p], caller, to, value)
    IN /\ p \in Deployed
       /\ IF r.ok
          THEN /\ pt' = [pt EXCEPT ![p] = r.tok]
               /\ ev' = Ev("transfer", 0)
               /\ UNCHANGED <<now, currentRoundId, roundIdToRound,
                              lbpAddressToPosition, lbp, bc, wallet, orchEth>>
          ELSE UNCHANGED vars

\* what a direct call of an orchestrator-only function of pool record l
\* leaves: the pool, its curve and the ETH sent to the orchestrator
poolAdminResult(l, tok, c, sender, op) ==
    CASE op = "settleWinner" ->
           LET r == lbpSettleWinner(l, tok, c, sender)
           IN [ok |-> r.ok, l |-> r.l, c |-> r.c, toOrch |-> 0]
      [] op = "forceLiquidate" ->
           LET r == lbpForceLiquidate(l, c, sender)
           IN [ok |-> r.ok, l |-> r.l, c |-> r.c, toOrch |-> 0]
      [] op = "emergencyExit" ->
           LET r == lbpEmergencyExit(l, sender)
           IN [ok |-> r.ok, l |-> r.l, c |-> c, toOrch |-> r.ret]

\* settleWinner, forceLiquidate or emergencyExit of pool p called directly
\* by caller
PoolAdminCall(caller, p, op) ==
    LET cid == lbp[p].BONDING_CURVE
    IN /\ p \in Deployed
       /\ \E r \in {poolAdminResult(lbp[p], pt[p], bc[cid], caller, op)} :
            IF r.ok
            THEN /\ lbp' = [lbp EXCEPT ![p] = r.l]
                 /\ bc' = [bc EXCEPT ![cid] = r.c]
                 /\ orchEth' = orchEth + r.toOrch
                 /\ ev' = Ev(op, 0)
                 /\ UNCHANGED <<now, currentRoundId, roundIdToRound,
                                lbpAddressToPosition, pt, wallet>>
            ELSE UNCHANGED vars

SellAmounts(b) == {b}
TransferAmounts(b) == {b}
TransferFrom == {"u1"}
PoolAdminOps == {"settleWinner", "forceLiquidate", "emergencyExit"}

Next ==
    \/ Tick
    \/ \E caller \in Callers, d \in Durations : StartRound(caller, d)
    \/ \E ta \in TokenAmounts, v \in CreateValues : CreatePosition(CREATOR, ta, v)
    \/ \E u \in Users, p \in PoolIds, v \in BuyValues : SwapBuy(u, p, v)
    \/ \E u \in Users, p \in PoolIds :
          \E a \in SellAmounts(pt[p].balances[u]) : SwapSell(u, p, a)
    \/ \E p \in PoolIds : LiquidatePosition(p)
    \/ \E p \in PoolIds : LiquidatePool(p)
    \/ SettleRound
    \/ \E caller \in Callers : SettleRoundEarly(caller)
    \/ \E u \in Users, c \in RoundIds, v \in DepositValues : DepositEth(u, c, v)
    \/ \E u \in TransferFrom, p \in PoolIds :
          \E to \in (Users \ {u}) \cup {LBPA}, a \in TransferAmounts(pt[p].balances[u]) :
             Transfer(u, p, to, a)
    \/ \E u \in Users, p \in PoolIds, op \in PoolAdminOps : PoolAdminCall(u, p, op)

Spec == Init /\ [][Next]_vars

(***************************************************************************)
(* getCurrentWeights on its own: a pool created at time 0 is asked for its *)
(* weights at later and later block times.                                 *)
(***************************************************************************)
\* the elapsed time from which START_WEIGHT * DECAY_TIMESCALE / (T0 + elapsed)
\* is below 1
WeightFloorElapsed == START_WEIGHT * DECAY_TIMESCALE - DECAY_TIMESCALE + 1

WeightTimes ==
    (0 .. MaxSmallElapsed)
    \cup {k * DECAY_TIMESCALE : k \in 1 .. MaxDecaySteps}
    \cup {WeightFloorElapsed - 2, WeightFloorElapsed - 1, WeightFloorElapsed,
          WeightFloorElapsed + DECAY_TIMESCALE, 2 * WeightFloorElapsed}

InitWeights ==
    /\ now = 0
    /\ Constructed
    /\ ev = Ev("getCurrentWeights", getCurrentWeights(0, 0))

\* vm.warp(t), then LBP.getCurrentWeights() of the pool created at time 0
GetCurrentWeights(t) ==
    /\ t > now
    /\ now' = t
    /\ ev' = Ev("getCurrentWeights", getCurrentWeights(0, t))
    /\ UNCHANGED <<currentRoundId, roundIdToRound, lbpAddressToPosition,
                   lbp, pt, bc, wallet, orchEth>>

NextWeights == \E t \in WeightTimes : GetCurrentWeights(t)

SpecWeights == InitWeights /\ [][NextWeights]_vars

(***************************************************************************)
(* getOwnedSupply on its own: one pool of round 1, with any split of its   *)
(* token supply between the pool and a trader, Active or Liquidated.       *)
(***************************************************************************)
InitOwnedSupply ==
    /\ now = 0
    /\ currentRoundId = 1
    /\ roundIdToRound =
         [r \in RoundIds |->
            IF r = 1
            THEN [BlankRound EXCEPT !.duration = FirstRoundDuration,
                                    !.endTime = FirstRoundDuration,
                                    !.bondingCurve = 1,
                                    !.lbps = <<1>>]
            ELSE BlankRound]
    /\ lbpAddressToPosition =
         [p \in PoolIds |-> IF p = 1 THEN [roundId |-> 1, creator |-> CREATOR]
                            ELSE [roundId |-> 0, creator |-> ZERO]]
    /\ \E ts \in 1 .. MaxOwnedSupply, liq \in BOOLEAN :
         \E ra \in 0 .. ts :
            /\ pt = [p \in PoolIds |->
                       IF p = 1
                       THEN [totalSupply |-> ts,
                             balances |-> [a \in TokenAddrs |->
                                             IF a = LBPA THEN ra
                                             ELSE IF a = "u1" THEN ts - ra
                                             ELSE 0],
                             holders |-> IF ra < ts THEN <<LBPA, "u1">> ELSE <<LBPA>>,
                             isHolder |-> IF ra < ts THEN {LBPA, "u1"} ELSE {LBPA}]
                       ELSE BlankToken]
            /\ lbp = [p \in PoolIds |->
                        IF p = 1
                        THEN [BlankLbp EXCEPT !.deployed = TRUE,
                                              !.BONDING_CURVE = 1,
                                              !.swapFee = SWAP_FEE_BPS,
                                              !.positionTokenAmount = ra,
                                              !.ethAmount = IF liq THEN 0
                                                            ELSE MAX_POSITION_ETH,
                                              !.liquidated = liq]
                        ELSE BlankLbp]
    /\ bc = [c \in RoundIds |->
               IF c = 1 THEN bcConstruct(BASE_PRICE, SLOPE, ORCH) ELSE BlankCurve]
    /\ wallet = [u \in Users |-> WalletInit]
    /\ orchEth = 0
    /\ ev = Ev("constructor", 0)

\* RoundOrchestrator.getOwnedSupply(p), a view call; it reverts when the
\* subtraction underflows
GetOwnedSupply(p) ==
    /\ p \in Deployed
    /\ IF lbp[p].liquidated \/ pt[p].totalSupply >= lbp[p].positionTokenAmount
       THEN /\ ev' = Ev("getOwnedSupply", getOwnedSupply(lbp, pt, p))
            /\ UNCHANGED state
       ELSE UNCHANGED vars

NextOwnedSupply == \E p \in PoolIds : GetOwnedSupply(p)

SpecOwnedSupply == InitOwnedSupply /\ [][NextOwnedSupply]_vars

(***************************************************************************)
(* The LinearBondingCurve on its own: the curve of round 1 is called       *)
(* directly, by the traders and by its owner, the orchestrator.            *)
(***************************************************************************)
MintValues == {0, 1, 2}
BurnAmounts(b) == {0, 1, b \div 2, b, b + 1}
WinnerLists == {<<>>, <<"u1">>, <<"u1", "u2">>, <<"u2", "u1">>, <<"u1", "u1">>}
ShareLists == {<<>>, <<10000>>, <<5000, 5000>>, <<3333, 6667>>, <<9999, 2>>}

\* LinearBondingCurve.mintBctFor(recipient, ethAmount) on curve c called by
\* caller with msg.value = value
MintBctFor(caller, c, recipient, ethAmount, value) ==
    /\ c \in DeployedCurves
    /\ wallet[caller] >= value
    /\ \E r \in {bcMintBctFor(bc[c], recipient, ethAmount)} :
         IF value = ethAmount /\ r.ok
         THEN /\ bc' = [bc EXCEPT ![c] = r.c]
              /\ wallet' = [wallet EXCEPT ![caller] = @ - value]
              /\ ev' = Ev("mintBctFor", r.ret)
              /\ UNCHANGED <<now, currentRoundId, roundIdToRound,
                             lbpAddressToPosition, lbp, pt, orchEth>>
         ELSE UNCHANGED vars

\* LinearBondingCurve.burnBct(bctAmount) on curve c called by caller
BurnBct(caller, c, bctAmount) ==
    /\ c \in DeployedCurves
    /\ \E r \in {bcBurnBct(bc[c], caller, bctAmount)} :
         IF r.ok
         THEN /\ bc' = [bc EXCEPT ![c] = r.c]
              /\ wallet' = [wallet EXCEPT ![caller] = @ + r.ret]
              /\ ev' = Ev("burnBct", r.ret)
              /\ UNCHANGED <<now, currentRoundId, roundIdToRound,
                             lbpAddressToPosition, lbp, pt, orchEth>>
         ELSE UNCHANGED vars

\* LinearBondingCurve.distributeToWinners(winners, shares) on curve c called
\* by sender
DistributeToWinners(sender, c, winners, shares) ==
    /\ c \in DeployedCurves
    /\ \E r \in {bcDistributeToWinners(bc[c], sender, winners, shares)} :
         IF r.ok
         THEN /\ bc' = [bc EXCEPT ![c] = r.c]
              /\ ev' = [Ev("distributeToWinners", r.ret)
                           EXCEPT !.winners = winners, !.shares = shares,
                                  !.dist = r.totalEth]
              /\ UNCHANGED <<now, currentRoundId, roundIdToRound,
                             lbpAddressToPosition, lbp, pt, wallet, orchEth>>
         ELSE UNCHANGED vars

\* the next block: the calls below are mined one per block
NextBlock ==
    /\ now < MaxCurveCalls
    /\ ev.op # "warp"
    /\ now' = now + 1
    /\ ev' = Ev("warp", 0)
    /\ UNCHANGED <<currentRoundId, roundIdToRound, lbpAddressToPosition,
                   lbp, pt, bc, wallet, orchEth>>

NextBondingCurve ==
    \/ NextBlock
    \/ /\ ev.op = "warp"
       /\ \E u \in Users, to \in Users, e \in MintValues :
             \E v \in {e, e + 1} : MintBctFor(u, 1, to, e, v)
    \/ /\ ev.op = "warp"
       /\ \E u \in Users : \E a \in BurnAmounts(bc[1].balances[u]) : BurnBct(u, 1, a)
    \/ /\ ev.op = "warp"
       /\ \E u \in Users, v \in DepositValues : DepositEth(u, 1, v)
    \/ /\ ev.op = "warp"
       /\ \E sender \in {ORCH, "u1"}, w \in WinnerLists, sh \in ShareLists :
             DistributeToWinners(sender, 1, w, sh)

SpecCurve == Init /\ [][NextBondingCurve]_vars

(***************************************************************************)
(* Calls in progress.  A call of a pool or a curve that makes an external  *)
(* call hands control to the callee before it returns; the nonReentrant    *)
(* modifier keeps the contract entered until then.  Here a sell, a direct  *)
(* liquidation and a burn stop at their external call, with everything     *)
(* written up to that point in storage; whoever holds control may call any *)
(* pool or curve function before the call in progress returns.  A callee   *)
(* that reverts undoes the whole transaction, which leaves the state the   *)
(* call started from and is not a step.  The 2300 gas that burnBct's       *)
(* transfer forwards is not counted: the callee is taken to be able to     *)
(* call back.                                                              *)
(***************************************************************************)
\* some pool or curve function has not returned yet
Executing ==
    \/ \E p \in PoolIds : lbp[p].entered
    \/ \E c \in RoundIds : bc[c].entered

\* LBP.swap(amountIn, false) on pool p called by caller, at the external call
\* BONDING_CURVE.call{value: amountOut}(mintBctFor): the tokens are pulled and
\* the reserves written, the curve is executing mintBctFor
SwapSellCalling(caller, p, amountIn) ==
    LET cid == lbp[p].BONDING_CURVE
    IN /\ p \in Deployed
       /\ ~Executing
       /\ \E r \in {lbpSwapSell(lbp[p], pt[p], bc[cid], caller, amountIn, now)} :
            /\ r.ok
            /\ lbp' = [lbp EXCEPT ![p] = [r.l EXCEPT !.entered = TRUE]]
            /\ pt' = [pt EXCEPT ![p] = r.tok]
            /\ bc' = [bc EXCEPT ![cid] = [r.c EXCEPT !.entered = TRUE]]
            /\ ev' = Ev("swapSell.call", r.ret)
            /\ UNCHANGED <<now, currentRoundId, roundIdToRound,
                           lbpAddressToPosition, wallet, orchEth>>

\* LBP.liquidatePool() on pool p called by anyone, at the external call
\* BONDING_CURVE.call{value: ethToSend}(depositEth): liquidated is set and
\* the reserve zeroed, the curve is executing depositEth
LiquidatePoolCalling(p) ==
    LET cid == lbp[p].BONDING_CURVE
    IN /\ p \in Deployed
       /\ ~Executing
       /\ \E r \in {lbpLiquidatePool(lbp[p], bc[cid], now)} :
            /\ r.ok
            /\ lbp' = [lbp EXCEPT ![p] = [r.l EXCEPT !.entered = TRUE]]
            /\ bc' = [bc EXCEPT ![cid] = [r.c EXCEPT !.entered = TRUE]]
            /\ ev' = Ev("liquidatePool.call", 0)
            /\ UNCHANGED <<now, currentRoundId, roundIdToRound,
                           lbpAddressToPosition, pt, wallet, orchEth>>

\* LinearBondingCurve.burnBct(bctAmount) on curve c called by caller, at
\* payable(msg.sender).transfer(ethAmount): the tokens are burnt, the ETH has
\* reached the caller, whose code is executing
BurnBctPaying(caller, c, bctAmount) ==
    /\ c \in DeployedCurves
    /\ ~Executing
    /\ \E r \in {bcBurnBct(bc[c], caller, bctAmount)} :
         /\ r.ok
         /\ bc' = [bc EXCEPT ![c] = [r.c EXCEPT !.entered = TRUE]]
         /\ wallet' = [wallet EXCEPT ![caller] = @ + r.ret]
         /\ ev' = Ev("burnBct.transfer", r.ret)
         /\ UNCHANGED <<now, currentRoundId, roundIdToRound,
                        lbpAddressToPosition, lbp, pt, orchEth>>

\* the external call returns and the call in progress ends: the modifier
\* resets the status of every contract it had entered
Return ==
    /\ Executing
    /\ lbp' = [p \in PoolIds |-> [lbp[p] EXCEPT !.entered = FALSE]]
    /\ bc' = [c \in RoundIds |-> [bc[c] EXCEPT !.entered = FALSE]]
    /\ ev' = Ev("return", ev.ret)
    /\ UNCHANGED <<now, currentRoundId, roundIdToRound, lbpAddressToPosition,
                   pt, wallet, orchEth>>

\* block.timestamp advances between transactions
TickBetweenCalls == ~Executing /\ Tick

\* createPosition as a transaction of its own
CreatePositionBetweenCalls(caller, tokenAmount, value) ==
    ~Executing /\ CreatePosition(caller, tokenAmount, value)

NextReentrancy ==
    \/ TickBetweenCalls
    \/ \E ta \in TokenAmounts, v \in CreateValues :
          CreatePositionBetweenCalls(CREATOR, ta, v)
    \/ \E u \in Users, p \in PoolIds :
          \E a \in SellAmounts(pt[p].balances[u]) : SwapSellCalling(u, p, a)
    \/ \E p \in PoolIds : LiquidatePoolCalling(p)
    \/ \E u \in Users, c \in RoundIds :
          \E a \in SellAmounts(bc[c].balances[u]) : BurnBctPaying(u, c, a)
    \/ Return
    \/ \E u \in Users, p \in PoolIds, v \in BuyValues : SwapBuy(u, p, v)
    \/ \E u \in Users, p \in PoolIds :
          \E a \in SellAmounts(pt[p].balances[u]) : SwapSell(u, p, a)
    \/ \E p \in PoolIds : LiquidatePool(p)
    \/ \E u \in Users, c \in RoundIds, v \in DepositValues : DepositEth(u, c, v)
    \/ \E u \in Users, c \in RoundIds :
          \E a \in SellAmounts(bc[c].balances[u]) : BurnBct(u, c, a)

SpecReentrancy == Init /\ [][NextReentrancy]_vars

(***************************************************************************)
(* Swaps on their own: one pool, created at time 0 in round 1, is traded   *)
(* by traders who hold enough ETH for inputs on which the fee is not 0,    *)
(* one swap per block.                                                     *)
(***************************************************************************)
SwapTokenAmounts == {100, 1000}
SwapCreateValues == {MIN_POSITION_ETH, MAX_POSITION_ETH}
SwapBuyValues    == {0, 1, 20}
SwapSellAmounts(b) == {0, b}
LateTime         == 27 * TickStep    \* the token weight is down to 324
SwapTimes        == {k * (TickStep \div 2) : k \in 1 .. MaxSwapCalls} \cup {LateTime}

\* the state after createPosition(tokenAmount) with msg.value = value at
\* time 0
InitSwap ==
    /\ now = 0
    /\ currentRoundId = 1
    /\ orchEth = 0
    /\ wallet = [u \in Users |-> MaxSwapWallet]
    /\ bc = [c \in RoundIds |->
               IF c = 1 THEN bcConstruct(BASE_PRICE, SLOPE, ORCH) ELSE BlankCurve]
    /\ roundIdToRound =
         [r \in RoundIds |->
            IF r = 1
            THEN [BlankRound EXCEPT !.duration = FirstRoundDuration,
                                    !.endTime = FirstRoundDuration,
                                    !.bondingCurve = 1,
                                    !.lbps = <<1>>]
            ELSE BlankRound]
    /\ lbpAddressToPosition =
         [p \in PoolIds |-> IF p = 1 THEN [roundId |-> 1, creator |-> CREATOR]
                            ELSE [roundId |-> 0, creator |-> ZERO]]
    /\ \E ta \in SwapTokenAmounts, v \in SwapCreateValues :
         \E con \in {lbpConstruct(ptConstruct(ta, ORCH), ta, SWAP_FEE_BPS, 1, v, 0)} :
            /\ con.ok
            /\ pt = [p \in PoolIds |-> IF p = 1 THEN con.tok ELSE BlankToken]
            /\ lbp = [p \in PoolIds |-> IF p = 1 THEN con.l ELSE BlankLbp]
    /\ ev = Ev("createPosition", 1)

\* vm.warp(t), after the swap of the present block
Warp(t) ==
    /\ t > now
    /\ ev.op # "warp"
    /\ now' = t
    /\ ev' = Ev("warp", 0)
    /\ UNCHANGED <<currentRoundId, roundIdToRound, lbpAddressToPosition,
                   lbp, pt, bc, wallet, orchEth>>

NextSwap ==
    \/ \E t \in SwapTimes : Warp(t)
    \/ /\ ev.op \in {"warp", "createPosition"}
       /\ \E u \in Users, v \in SwapBuyValues : SwapBuy(u, 1, v)
    \/ /\ ev.op \in {"warp", "createPosition"}
       /\ \E u \in Users :
             \E a \in SwapSellAmounts(pt[1].balances[u]) : SwapSell(u, 1, a)

SpecSwap == InitSwap /\ [][NextSwap]_vars

\* the same pool and trades, and the settlement of its round, due from
\* block time FirstRoundDuration on
NextSwapSettle ==
    \/ NextSwap
    \/ ev.op = "warp" /\ SettleRound

SpecSwapSettle == InitSwap /\ [][NextSwapSettle]_vars

(***************************************************************************)
(* Properties.                                                             *)
(***************************************************************************)
SettleOps == {"settleRound", "settleRoundEarly", "startRound"}

\* the step settles round r
SettleStep(r) == ~roundIdToRound[r].settled /\ roundIdToRound'[r].settled

PoolsOf(r) == Range(roundIdToRound[r].lbps)

\* the funding that round r's settlement collects: what its curve's bonus
\* pool holds already and the reserves of its pools not yet liquidated
FundingOfRound(r) ==
    bc[roundIdToRound[r].bondingCurve].liquidationBonusPool
    + SumOver([p \in PoolIds |-> lbp[p].ethAmount],
              {p \in PoolsOf(r) : ~lbp[p].liquidated})

\* owned supply of a pool, whatever its flags
OwnedTokens(p) == pt[p].totalSupply - lbp[p].positionTokenAmount

\* C1: in a settlement with a winner that calls distributeToWinners, that
\* call is the last one, after settleWinner and every forceLiquidate, and
\* the bonus pool it converts holds the funding of all pools of the round.
C1_DistributeAfterAllDeposits ==
    [][\A r \in RoundIds :
          (/\ SettleStep(r)
           /\ roundIdToRound'[r].winnerLbp # NOPOOL
           /\ "distribute" \in Range(ev'.order))
          => /\ ev'.order[Len(ev'.order)] = "distribute"
             /\ ev'.dist = FundingOfRound(r)]_vars

\* C2: the winner recorded by a settlement is the pool of the round with
\* the highest getOwnedSupply, and among several with that maximum the one
\* with the lowest index in the round's pool list.
C2_WinnerIsFirstMaximum ==
    [][\A r \in RoundIds :
          LET lbps == roundIdToRound[r].lbps
              owned(p) == getOwnedSupply(lbp, pt, p)
              w == roundIdToRound'[r].winnerLbp
          IN (SettleStep(r) /\ \E i \in 1 .. Len(lbps) : owned(lbps[i]) > 0)
             => /\ ev'.winnerLbp = w
                /\ \E i \in 1 .. Len(lbps) :
                     /\ lbps[i] = w
                     /\ \A j \in 1 .. Len(lbps) :
                          /\ owned(lbps[j]) <= owned(w)
                          /\ j < i => owned(lbps[j]) < owned(w)]_vars

\* C2 witness: a settled round whose two pools tie on owned supply, the
\* first of them recorded as winner and the second force-liquidated
C2_Witness ==
    /\ ev.op \in SettleOps /\ ev.settledRound # 0
    /\ LET lbps == roundIdToRound[ev.settledRound].lbps
       IN /\ Len(lbps) >= 2
          /\ roundIdToRound[ev.settledRound].winnerLbp = lbps[1]
          /\ OwnedTokens(lbps[1]) = OwnedTokens(lbps[2])
          /\ OwnedTokens(lbps[1]) > 0
          /\ "forceLiquidate" \in Range(ev.order)

\* C3: a settlement with a winner leaves the round Settled, the winner pool
\* Settled, every other pool of the round Liquidated, and all of them with
\* fundingReserve 0.
C3_SettlementOutcome ==
    [][\A r \in RoundIds :
          LET w == roundIdToRound'[r].winnerLbp
          IN (SettleStep(r) /\ w # NOPOOL)
             => /\ roundIdToRound'[r].settled
                /\ lbp'[w].settled /\ ~lbp'[w].liquidated
                /\ \A p \in PoolsOf(r) :
                     /\ p # w => lbp'[p].liquidated /\ ~lbp'[p].settled
                     /\ lbp'[p].ethAmount = 0]_vars

\* C3 witness: a settlement with a winner and another pool has just run
C3_Witness ==
    /\ ev.op \in SettleOps /\ ev.settledRound # 0
    /\ ev.winnerLbp # NOPOOL
    /\ Len(roundIdToRound[ev.settledRound].lbps) >= 2
    /\ roundIdToRound[ev.settledRound].settled

\* C4: the winners settleWinner returns are the holders, in list order,
\* with a positive balance other than the pool; every winner but the last
\* has floor(balance * 10000 / ownedSupply), the last has that plus the
\* remainder, and the shares sum to 10000.
C4_SharesSumTo10000 ==
    (ev.op \in SettleOps /\ ev.winnerLbp # NOPOOL)
    => LET w == ev.winnerLbp
           tok == pt[w]
           n == Len(ev.winners)
           floor(a) == (tok.balances[a] * 10000) \div OwnedTokens(w)
           eligible == {i \in 1 .. Len(tok.holders) :
                          tok.holders[i] # LBPA /\ tok.balances[tok.holders[i]] > 0}
       IN /\ n > 0 /\ Len(ev.shares) = n
          /\ n = Cardinality(eligible)
          /\ \A k \in 1 .. n :
               \E i \in eligible :
                  /\ tok.holders[i] = ev.winners[k]
                  /\ Cardinality({j \in eligible : j < i}) = k - 1
          /\ \A k \in 1 .. n - 1 : ev.shares[k] = floor(ev.winners[k])
          /\ ev.shares[n] = floor(ev.winners[n])
                            + (10000 - SumSeq([k \in 1 .. n |-> floor(ev.winners[k])]))
          /\ SumSeq(ev.shares) = 10000

\* C4 witness: two winners whose floor shares fall short of 10000
C4_Witness ==
    /\ ev.op \in SettleOps /\ ev.winnerLbp # NOPOOL
    /\ Len(ev.winners) = 2
    /\ LET tok == pt[ev.winnerLbp]
       IN (tok.balances[ev.winners[1]] * 10000) \div OwnedTokens(ev.winnerLbp)
          + (tok.balances[ev.winners[2]] * 10000) \div OwnedTokens(ev.winnerLbp)
          < 10000

\* C5: a pool is never both Settled and Liquidated, and a pool that is
\* Settled or Liquidated keeps exactly that state in every later step.
C5_PoolLifecycle ==
    /\ [](\A p \in PoolIds : ~(lbp[p].settled /\ lbp[p].liquidated))
    /\ [][\A p \in PoolIds :
            /\ lbp[p].settled => lbp'[p].settled /\ ~lbp'[p].liquidated
            /\ lbp[p].liquidated => lbp'[p].liquidated /\ ~lbp'[p].settled]_vars

\* C5 witness: one pool is Settled and another Liquidated, and a later call
\* has succeeded
C5_Witness ==
    /\ \E p, q \in PoolIds : lbp[p].settled /\ lbp[q].liquidated
    /\ ev.op \notin SettleOps

\* C6: a settleRound call on a round that is already Settled or has not
\* reached its end time, and a settleRoundEarly call on a Settled round,
\* change nothing.
C6_SettleFailsUnchanged ==
    [][/\ ((roundIdToRound[currentRoundId].settled
               \/ now < roundIdToRound[currentRoundId].endTime) /\ SettleRound)
          => UNCHANGED vars
       /\ \A caller \in Callers :
            (roundIdToRound[currentRoundId].settled /\ SettleRoundEarly(caller))
            => UNCHANGED vars]_vars

\* C6 witness: the current round has been settled by settleRound, so that a
\* second settleRound finds it Settled
C6_Witness ==
    /\ ev.op = "settleRound"
    /\ roundIdToRound[currentRoundId].settled
    /\ now >= roundIdToRound[currentRoundId].endTime
    /\ roundIdToRound[currentRoundId].lbps # <<>>

\* C7: startRound changes nothing when the current round has not reached
\* its end time or the duration is out of range; when it succeeds the round
\* id grows by exactly 1 and the new round has a curve deployed in this
\* call, with zero supply, that no earlier round has.
C7_StartRound ==
    [][/\ \A caller \in Callers, d \in Durations :
            ((\/ now < roundIdToRound[currentRoundId].endTime
              \/ d < MIN_DURATION \/ d > MAX_DURATION)
             /\ StartRound(caller, d))
            => UNCHANGED vars
       /\ currentRoundId' # currentRoundId
            => /\ currentRoundId' = currentRoundId + 1
               /\ LET c == roundIdToRound'[currentRoundId'].bondingCurve
                  IN /\ ~bc[c].deployed /\ bc'[c].deployed
                     /\ bc'[c].totalSupply = 0
                     /\ bc'[c].liquidationBonusPool = 0
                     /\ \A u \in Users : bc'[c].balances[u] = 0
                     /\ \A r \in 1 .. currentRoundId :
                          roundIdToRound'[r].bondingCurve # c]_vars

\* C7 witness: startRound has opened round 2 while round 1's curve has supply
C7_Witness ==
    /\ ev.op = "startRound" /\ currentRoundId = 2
    /\ bc[roundIdToRound[1].bondingCurve].totalSupply > 0

\* C8: every round with an id below the current round id is Settled.
C8_EarlierRoundsSettled ==
    \A r \in RoundIds : r < currentRoundId => roundIdToRound[r].settled

\* C8 witness: startRound itself settled round 1, which had a pool
C8_Witness ==
    /\ ev.op = "startRound" /\ ev.settledRound = 1
    /\ currentRoundId = 2
    /\ roundIdToRound[1].lbps # <<>>

\* a round is Open when it has been created and is not Settled
OpenRounds == {r \in RoundIds : r <= currentRoundId /\ ~roundIdToRound[r].settled}

\* C9: exactly one round is Open in every reachable state.
C9_ExactlyOneOpen == Cardinality(OpenRounds) = 1

\* C9, weakened: at most one round is Open, and it is the current round.
C9_AtMostOneOpen == OpenRounds \subseteq {currentRoundId}

\* C9 witness: round 2 is Open and round 1, which had a pool, is not
C9_Witness ==
    /\ currentRoundId = 2
    /\ OpenRounds = {2}
    /\ roundIdToRound[1].lbps # <<>>
    /\ roundIdToRound[2].lbps # <<>>

\* C10: whenever a round is Settled, the bonus pool of its curve is 0.
C10_SettledRoundBonusZero ==
    \A r \in RoundIds :
       roundIdToRound[r].settled
       => bc[roundIdToRound[r].bondingCurve].liquidationBonusPool = 0

\* C11: a successful swap adds the full amountIn, fee included, to the
\* input-side reserve and takes the computed output from the output-side
\* reserve, both staying >= 0; a buy raises ethAmount and strictly lowers
\* positionTokenAmount, a sell does the opposite.
C11_SwapReserves ==
    [][\A u \in Users, p \in PoolIds :
          /\ \A v \in BuyValues :
                (lbp'[p] # lbp[p] /\ SwapBuy(u, p, v))
                => /\ lbp'[p].ethAmount = lbp[p].ethAmount + v
                   /\ lbp'[p].positionTokenAmount
                        = lbp[p].positionTokenAmount - ev'.ret
                   /\ pt'[p].balances[u] = pt[p].balances[u] + ev'.ret
                   /\ lbp'[p].positionTokenAmount >= 0
                   /\ lbp'[p].ethAmount > lbp[p].ethAmount
                   /\ lbp'[p].positionTokenAmount < lbp[p].positionTokenAmount
          /\ \A a \in SellAmounts(pt[p].balances[u]) :
                (lbp'[p] # lbp[p] /\ SwapSell(u, p, a))
                => LET cid == lbp[p].BONDING_CURVE
                       fundingOut == bc'[cid].eth - bc[cid].eth
                   IN /\ lbp'[p].positionTokenAmount
                           = lbp[p].positionTokenAmount + a
                      /\ lbp'[p].ethAmount = lbp[p].ethAmount - fundingOut
                      /\ lbp'[p].ethAmount >= 0
                      /\ lbp'[p].positionTokenAmount > lbp[p].positionTokenAmount
                      /\ lbp'[p].ethAmount < lbp[p].ethAmount]_vars

\* C13: every swap that succeeds returns a strictly positive amount.
C13_SwapOutputPositive ==
    ev.op \in {"swapBuy", "swapSell"} => ev.ret > 0

\* a pool on which swap must fail: Settled, Liquidated or with an empty
\* reserve
SwapClosed(p) ==
    \/ lbp[p].settled
    \/ lbp[p].liquidated
    \/ lbp[p].positionTokenAmount = 0
    \/ lbp[p].ethAmount = 0

\* C12: a swap in either direction on a pool that is Settled, Liquidated or
\* has a zero reserve changes nothing.
C12_SwapFailsOnClosedPool ==
    [][\A u \in Users, p \in PoolIds :
          /\ \A v \in BuyValues :
                (SwapClosed(p) /\ SwapBuy(u, p, v)) => UNCHANGED vars
          /\ \A a \in SellAmounts(pt[p].balances[u]) :
                (SwapClosed(p) /\ SwapSell(u, p, a)) => UNCHANGED vars]_vars

\* C12 witness: a Settled pool and a Liquidated pool, with a trader who
\* holds tokens of the Settled pool to sell and a trader who has ETH to buy
C12_Witness ==
    \E p, q \in Deployed :
       /\ lbp[p].settled /\ lbp[q].liquidated
       /\ \E u \in Users : pt[p].balances[u] > 0
       /\ \E u \in Users : wallet[u] >= 2

\* C14: a successful sell sends the computed ETH amount from the pool to
\* its curve through mintBctFor(trader, amount): the trader's ETH does not
\* change, the trader's curve-token balance and the curve's totalSupply grow
\* by the value the swap returns, and the curve's ETH grows by that amount.
C14_SellMintsRewardToken ==
    [][\A u \in Users, p \in PoolIds :
          \A a \in SellAmounts(pt[p].balances[u]) :
             (lbp'[p] # lbp[p] /\ SwapSell(u, p, a))
             => LET cid == lbp[p].BONDING_CURVE
                    fundingOut == lbp[p].ethAmount - lbp'[p].ethAmount
                IN /\ fundingOut > 0
                   /\ wallet' = wallet /\ orchEth' = orchEth
                   /\ ev'.ret = calculateBctAmount(bc[cid], fundingOut)
                   /\ bc'[cid].balances[u] = bc[cid].balances[u] + ev'.ret
                   /\ bc'[cid].totalSupply = bc[cid].totalSupply + ev'.ret
                   /\ bc'[cid].eth = bc[cid].eth + fundingOut
                   /\ bc'[cid].liquidationBonusPool
                        = bc[cid].liquidationBonusPool]_vars

\* C14 witness: a sell has just succeeded and minted curve tokens to the
\* seller
C14_Witness ==
    /\ ev.op = "swapSell" /\ ev.ret > 0
    /\ \E c \in DeployedCurves, u \in Users :
          bc[c].balances[u] = ev.ret /\ bc[c].eth > 0

\* C15: at every elapsed time the weights sum to 10000 with
\* 1 <= weightToken <= 10000, weightToken is 9091 at elapsed 0, and it
\* never grows as the elapsed time grows.
C15_WeightsDecay ==
    /\ [](/\ ev.ret[1] + ev.ret[2] = 10000
          /\ ev.ret[1] >= 1 /\ ev.ret[1] <= 10000
          /\ now = 0 => ev.ret = <<9091, 909>>)
    /\ [][now' > now => ev'.ret[1] <= ev.ret[1]]_vars

\* C15 witness: the elapsed time is so long that the quotient is 0 and the
\* weight is held at 1
C15_Witness ==
    /\ ev.op = "getCurrentWeights"
    /\ now >= WeightFloorElapsed
    /\ (START_WEIGHT * DECAY_TIMESCALE) \div (DECAY_TIMESCALE + now) = 0
    /\ ev.ret = <<1, 9999>>

RoundOf(p) == lbpAddressToPosition[p].roundId

\* C17: settleWinner and forceLiquidate called by anyone but the
\* orchestrator change nothing; a pool becomes Settled, or Liquidated while
\* its price is above liquidationPrice, only in a step that settles its
\* round.
C17_OnlyOrchestrator ==
    [][\A p \in PoolIds :
          /\ \A u \in Users, op \in {"settleWinner", "forceLiquidate"} :
                (lbp[p].deployed /\ PoolAdminCall(u, p, op)) => UNCHANGED vars
          /\ (lbp[p].deployed /\ ~lbp[p].settled /\ lbp'[p].settled)
                => ev'.op \in SettleOps /\ SettleStep(RoundOf(p))
          /\ (/\ lbp[p].deployed /\ ~lbp[p].liquidated /\ lbp'[p].liquidated
              /\ lbpCurrentPrice(lbp[p], now) > lbp[p].liquidationPrice)
                => ev'.op \in SettleOps /\ SettleStep(RoundOf(p))]_vars

\* C17 witness: a settlement at time 0, when every price is still above its
\* liquidationPrice, has settled the winner and force-liquidated another
\* pool
C17_Witness ==
    /\ ev.op \in SettleOps /\ now = 0
    /\ "settleWinner" \in Range(ev.order)
    /\ "forceLiquidate" \in Range(ev.order)
    /\ \E p, q \in Deployed : lbp[p].settled /\ lbp[q].liquidated

\* C18: liquidatePosition on a pool whose round is Settled changes nothing,
\* and no pool becomes Liquidated, sending its reserve to the bonus pool,
\* once its round is Settled.
C18_NoLiquidationAfterSettlement ==
    [][\A p \in PoolIds :
          lbp[p].deployed /\ roundIdToRound[RoundOf(p)].settled
          => /\ LiquidatePosition(p) => UNCHANGED vars
             /\ ~lbp[p].liquidated => ~lbp'[p].liquidated]_vars

\* C19: createPosition with msg.value outside
\* [MIN_POSITION_ETH, MAX_POSITION_ETH], with tokenAmount 0, or at or after
\* the current round's end time deploys nothing and changes nothing.
C19_CreatePositionFails ==
    [][\A ta \in TokenAmounts, v \in CreateValues :
          ((\/ v < MIN_POSITION_ETH \/ v > MAX_POSITION_ETH
            \/ ta <= 0
            \/ now >= roundIdToRound[currentRoundId].endTime)
           /\ CreatePosition(CREATOR, ta, v))
          => UNCHANGED vars]_vars

\* C19 witness: the current round has reached its end time, it has a pool
\* already and another pool could still be deployed
C19_Witness ==
    /\ now >= roundIdToRound[currentRoundId].endTime
    /\ roundIdToRound[currentRoundId].lbps # <<>>
    /\ NextPool(lbp) <= MaxPools

\* C20: a successful createPosition leaves a new pool that is neither
\* Settled nor Liquidated, appended to the current round's list, recorded
\* with the current round id and the caller, bound to the round's curve,
\* with reserves (tokenAmount, msg.value), and holding the whole supply of
\* its new token, so that its owned supply is 0.
C20_CreatePositionOutcome ==
    [][\A ta \in TokenAmounts, v \in CreateValues :
          (lbp' # lbp /\ CreatePosition(CREATOR, ta, v))
          => LET p == ev'.ret
                 round == roundIdToRound[currentRoundId]
             IN /\ ~lbp[p].deployed /\ lbp'[p].deployed
                /\ ~lbp'[p].settled /\ ~lbp'[p].liquidated
                /\ roundIdToRound'[currentRoundId].lbps = Append(round.lbps, p)
                /\ \A q \in Range(round.lbps) : q # p
                /\ lbpAddressToPosition'[p]
                     = [roundId |-> currentRoundId, creator |-> CREATOR]
                /\ lbp'[p].BONDING_CURVE = round.bondingCurve
                /\ lbp'[p].positionTokenAmount = ta
                /\ lbp'[p].ethAmount = v
                /\ lbp'[p].startTime = now
                /\ pt[p].totalSupply = 0 /\ pt[p].holders = <<>>
                /\ pt'[p].totalSupply = ta
                /\ pt'[p].balances[LBPA] = ta
                /\ \A a \in TokenAddrs \ {LBPA} : pt'[p].balances[a] = 0
                /\ getOwnedSupply(lbp', pt', p) = 0
                /\ \A q \in PoolIds \ {p} : lbp'[q] = lbp[q] /\ pt'[q] = pt[q]]_vars

\* C20 witness: a second pool has just been created in a round
C20_Witness ==
    /\ ev.op = "createPosition"
    /\ Len(roundIdToRound[currentRoundId].lbps) = 2
    /\ roundIdToRound[currentRoundId].lbps[2] = ev.ret

\* C21: getOwnedSupply returns 0 for a Liquidated pool and otherwise the
\* token's totalSupply minus the pool's positionTokenAmount, and the call
\* changes no storage.
C21_GetOwnedSupply ==
    [][\A p \in PoolIds :
          GetOwnedSupply(p)
          => /\ ev'.op = "getOwnedSupply"
             /\ ev'.ret = IF lbp[p].liquidated THEN 0
                          ELSE pt[p].totalSupply - lbp[p].positionTokenAmount
             /\ ev'.ret >= 0
             /\ state' = state]_vars

\* C21 witness: the call has returned 0 for a Liquidated pool of whose
\* tokens a trader holds some
C21_Witness ==
    /\ ev.op = "getOwnedSupply" /\ ev.ret = 0
    /\ lbp[1].liquidated
    /\ pt[1].totalSupply > lbp[1].positionTokenAmount

\* C22: burnBct never pays out ETH of the bonus pool: a burn that succeeds
\* pays at most the curve's balance minus liquidationBonusPool, so the
\* curve's balance is >= liquidationBonusPool in every reachable state; a
\* burn of 0, of more than the caller's balance, or worth 0 ETH changes
\* nothing.
C22_BurnKeepsBonusPool ==
    /\ [](\A c \in DeployedCurves : bc[c].eth >= bc[c].liquidationBonusPool)
    /\ [][\A u \in Users, c \in RoundIds :
            \A a \in BurnAmounts(bc[c].balances[u]) :
               /\ (bc' # bc /\ BurnBct(u, c, a))
                    => ev'.ret <= bc[c].eth - bc[c].liquidationBonusPool
               /\ ((\/ a = 0 \/ bc[c].balances[u] < a
                     \/ calculateEthAmount(bc[c], a) = 0)
                   /\ BurnBct(u, c, a))
                    => UNCHANGED vars]_vars

\* C23: a successful mintBctFor of ethAmount from supply S mints the amount
\* m under which the price curve integrates to ethAmount:
\* m * (price(S) + price(S + m)) / 2 / PRECISION is within 1 of ethAmount.
C23_MintMatchesIntegral ==
    [][\A u \in Users, to \in Users, e \in MintValues :
          (bc' # bc /\ MintBctFor(u, 1, to, e, e))
          => LET m == ev'.ret
                 integral == ((m * (bcCurrentPrice(bc[1]) + bcCurrentPrice(bc'[1])))
                                 \div 2) \div PRECISION
             IN /\ bc'[1].totalSupply = bc[1].totalSupply + m
                /\ integral >= e - 1 /\ integral <= e + 1]_vars

\* C24: a depositEth of value > 0 adds exactly value to
\* liquidationBonusPool and leaves basePrice, slope, totalSupply, every
\* balance of the curve token and getCurrentPrice() as they were.
C24_DepositOnlyBonusPool ==
    [][\A u \in Users, c \in RoundIds, v \in DepositValues :
          (v > 0 /\ bc' # bc /\ DepositEth(u, c, v))
          => /\ bc'[c].liquidationBonusPool = bc[c].liquidationBonusPool + v
             /\ bc'[c].basePrice = bc[c].basePrice
             /\ bc'[c].slope = bc[c].slope
             /\ bc'[c].totalSupply = bc[c].totalSupply
             /\ bc'[c].balances = bc[c].balances
             /\ bcCurrentPrice(bc'[c]) = bcCurrentPrice(bc[c])
             /\ \A d \in RoundIds \ {c} : bc'[d] = bc[d]]_vars

\* C24 witness: a deposit has been made into a curve that has supply
C24_Witness ==
    /\ ev.op = "depositEth"
    /\ \E c \in DeployedCurves :
          /\ bc[c].totalSupply > 0
          /\ bc[c].liquidationBonusPool = 2
          /\ bcCurrentPrice(bc[c]) > bc[c].basePrice

\* what distributeToWinners mints to the i-th winner out of totalBct
WinnerAmount(totalBct, shares, i) == (totalBct * shares[i]) \div 10000

\* C25: a successful distributeToWinners computes totalBct once, from the
\* whole bonus pool at the supply before the call, mints
\* floor(totalBct * share / 10000) to each winner, so that with shares that
\* sum to 10000 the total minted is <= totalBct and short of it by less
\* than the number of winners, and leaves the bonus pool at 0; with arrays
\* of different lengths, no winner or an empty bonus pool it changes
\* nothing.
C25_Distribute ==
    [][\A sender \in {ORCH, "u1"}, w \in WinnerLists, sh \in ShareLists :
          /\ (bc' # bc /\ DistributeToWinners(sender, 1, w, sh))
               => LET totalBct == calculateBctAmount(bc[1], bc[1].liquidationBonusPool)
                      minted == SumSeq([i \in 1 .. Len(w) |->
                                          WinnerAmount(totalBct, sh, i)])
                  IN /\ ev'.ret = totalBct
                     /\ \A u \in Users :
                          bc'[1].balances[u]
                            = bc[1].balances[u]
                              + SumSeq([i \in 1 .. Len(w) |->
                                          IF w[i] = u
                                          THEN WinnerAmount(totalBct, sh, i)
                                          ELSE 0])
                     /\ bc'[1].totalSupply = bc[1].totalSupply + minted
                     /\ SumSeq(sh) = 10000
                          => minted <= totalBct /\ totalBct - minted < Len(w)
                     /\ bc'[1].liquidationBonusPool = 0
                     /\ bc'[1].eth = bc[1].eth
          /\ ((\/ Len(w) # Len(sh) \/ Len(w) = 0
                \/ bc[1].liquidationBonusPool = 0)
              /\ DistributeToWinners(sender, 1, w, sh))
               => UNCHANGED vars]_vars

\* C25 witness: a distribution to two winners, on a curve that had supply,
\* has minted less than totalBct because of the rounding
C25_Witness ==
    /\ ev.op = "distributeToWinners"
    /\ Len(ev.winners) = 2 /\ SumSeq(ev.shares) = 10000
    /\ LET minted == SumSeq([i \in 1 .. 2 |-> WinnerAmount(ev.ret, ev.shares, i)])
       IN /\ minted < ev.ret
          /\ bc[1].totalSupply > minted
    /\ bc[1].liquidationBonusPool = 0

\* C26: the holder list of every PositionToken has no address twice and
\* only grows by appending; an address that receives tokens while it is not
\* in the list is appended in that very step, so the list is in the order
\* of first receipt; every trader with a positive balance is in the list,
\* and stays there when the balance returns to 0.
C26_HolderList ==
    /\ [](\A p \in PoolIds :
            /\ Cardinality(Range(pt[p].holders)) = Len(pt[p].holders)
            /\ Range(pt[p].holders) = pt[p].isHolder
            /\ \A u \in Users :
                  pt[p].balances[u] > 0 => u \in Range(pt[p].holders))
    /\ [][\A p \in PoolIds :
            LET h == pt[p].holders
                hn == pt'[p].holders
            IN /\ Len(hn) >= Len(h)
               /\ SubSeq(hn, 1, Len(h)) = h
               /\ \A u \in Users :
                     (pt'[p].balances[u] > pt[p].balances[u] /\ u \notin Range(h))
                     => hn = Append(h, u)]_vars

\* C26 witness: two traders are in the list in the order in which they
\* first received tokens, and the first one's balance is back to 0
C26_Witness ==
    \E p \in Deployed :
       /\ ev.op = "transfer"
       /\ \E i, j \in 1 .. Len(pt[p].holders) :
             /\ i < j
             /\ pt[p].holders[i] = "u1" /\ pt[p].holders[j] = "u2"
       /\ pt[p].balances["u1"] = 0
       /\ pt[p].balances["u2"] > 0

\* C27: the pool's own address is never in the holder list of its
\* PositionToken.
C27_PoolNotInHolders ==
    \A p \in Deployed : LBPA \notin Range(pt[p].holders)

\* the second loop of _settleRound, run on the current round from the
\* present storage: ok = FALSE when settleWinner, a forceLiquidate deposit
\* or distributeToWinners reverts, with the writes made until then
SettleLoopNow ==
    settleLoop(roundIdToRound[currentRoundId], pt,
               selectWinner(lbp, pt, roundIdToRound[currentRoundId].lbps,
                            1, 0, NOPOOL),
               1,
               [ok |-> TRUE, lbp |-> lbp, bc |-> bc, winners |-> <<>>,
                shares |-> <<>>, dist |-> 0, order |-> <<>>])

PoolCallsRejected(p) ==
    LET cid == lbp[p].BONDING_CURVE
    IN /\ \A u \in Users, v \in BuyValues \cup {1} :
             ~lbpSwapBuy(lbp[p], pt[p], u, v, now).ok
       /\ \A u \in Users : \A a \in {1, pt[p].balances[u]} :
             ~lbpSwapSell(lbp[p], pt[p], bc[cid], u, a, now).ok
       /\ ~lbpLiquidatePool(lbp[p], bc[cid], now).ok
       /\ \A u \in Users \cup {ORCH}, op \in PoolAdminOps :
             ~poolAdminResult(lbp[p], pt[p], bc[cid], u, op).ok

\* every state-changing function of curve c reverts in the present state
CurveCallsRejected(c) ==
    /\ \A u \in Users, e \in MintValues : ~bcMintBctFor(bc[c], u, e).ok
    /\ \A u \in Users : \A a \in BurnAmounts(bc[c].balances[u]) :
          ~bcBurnBct(bc[c], u, a).ok
    /\ \A v \in DepositValues \cup {1} : ~bcDepositEth(bc[c], v).ok
    /\ \A sender \in {ORCH, "u1"}, w \in WinnerLists, sh \in ShareLists :
          ~bcDistributeToWinners(bc[c], sender, w, sh).ok

CurveOf(r) == roundIdToRound[r].bondingCurve

\* C30: every pool is bound, for good, to the curve of the round it was
\* created in, and the curves of different rounds differ; a step that
\* changes a curve is a direct depositEth on it or changes a pool of that
\* curve's round, so that creating a pool, swapping, liquidating and
\* settling in one round leave the curve of every other round as it was;
\* the settlement of a round mints nothing on the curve of the next one.
C30_CurvePerRound ==
    /\ [](/\ \A p \in Deployed : lbp[p].BONDING_CURVE = CurveOf(RoundOf(p))
          /\ \A r, q \in 1 .. currentRoundId : r # q => CurveOf(r) # CurveOf(q))
    /\ [][\A r \in 1 .. currentRoundId :
            /\ bc'[CurveOf(r)] # bc[CurveOf(r)]
                 => \/ ev'.op = "depositEth"
                    \/ \E p \in Deployed : RoundOf(p) = r /\ lbp'[p] # lbp[p]
            /\ \A q \in (1 .. currentRoundId) \ {r} :
                 (\/ SettleStep(q)
                  \/ Len(roundIdToRound'[q].lbps) > Len(roundIdToRound[q].lbps)
                  \/ \E p \in Deployed : RoundOf(p) = q /\ lbp'[p] # lbp[p])
                 => bc'[CurveOf(r)] = bc[CurveOf(r)]
            /\ (SettleStep(r) /\ r < MaxRounds /\ bc'[r + 1].deployed)
                 => /\ bc'[r + 1].totalSupply = 0
                    /\ \A u \in Users : bc'[r + 1].balances[u] = 0]_vars

\* C30 witness: round 2 has been settled with a distribution on its own
\* curve while the curve of round 1 has supply of its own
C30_Witness ==
    /\ ev.op \in SettleOps /\ ev.settledRound = 2
    /\ "distribute" \in Range(ev.order)
    /\ bc[CurveOf(2)].totalSupply > 0
    /\ bc[CurveOf(1)].totalSupply > 0
    /\ CurveOf(1) # CurveOf(2)

NoOwnedSupply(r) ==
    \A p \in PoolsOf(r) : getOwnedSupply(lbp, pt, p) = 0

\* C32: the settlement of a round without pools, or whose pools all have
\* owned supply 0 (liquidated ones included), does not revert; it records no
\* winner, leaves every pool of the round liquidated, calls neither
\* settleWinner nor distributeToWinners and marks the round settled.  A call
\* of settleRound, settleRoundEarly or startRound that settles such a round
\* emits exactly that.
C32_NoWinnerSettlement ==
    /\ [](\A s \in {settleRoundInternal(roundIdToRound, lbp, pt, bc, currentRoundId)} :
            (~roundIdToRound[currentRoundId].settled /\ NoOwnedSupply(currentRoundId))
              => /\ s.ok
                 /\ s.winnerLbp = NOPOOL
                 /\ s.rounds[currentRoundId].settled
                 /\ s.rounds[currentRoundId].winnerLbp = NOPOOL
                 /\ \A p \in PoolsOf(currentRoundId) : s.lbp[p].liquidated
                 /\ Range(s.order) \subseteq {"forceLiquidate"}
                 /\ Len(s.order) = Cardinality({p \in PoolsOf(currentRoundId) :
                                                   ~lbp[p].liquidated})
                 /\ s.dist = 0)
    /\ [][\A r \in RoundIds :
            /\ (NoOwnedSupply(r) /\ SettleStep(r))
                 => /\ ev'.winnerLbp = NOPOOL
                    /\ roundIdToRound'[r].winnerLbp = NOPOOL
                    /\ "distribute" \notin Range(ev'.order)
                    /\ "settleWinner" \notin Range(ev'.order)
                    /\ \A p \in PoolsOf(r) : lbp'[p].liquidated
            /\ (/\ r = currentRoundId
                /\ NoOwnedSupply(r)
                /\ settleRoundGuard(roundIdToRound, r, now)
                /\ SettleRound)
                 => roundIdToRound'[r].settled]_vars

\* C33: whenever the current round is unsettled and its end time has
\* passed, a call of settleRound succeeds, whatever swaps, token transfers
\* and liquidations came before.
C33_SettlementNeverBlocked ==
    \A s \in {settleRoundPublic(roundIdToRound, lbp, pt, bc, currentRoundId, now)} :
       (/\ ~roundIdToRound[currentRoundId].settled
        /\ now >= roundIdToRound[currentRoundId].endTime)
         => s.ok

\* C34: every pool registered in a settled round is Settled or Liquidated.
C34_SettledRoundPoolsTerminal ==
    \A p \in Deployed :
       roundIdToRound[RoundOf(p)].settled => (lbp[p].settled \/ lbp[p].liquidated)

\* C35: a pool that is Settled or Liquidated has ethAmount 0, and no step
\* changes the positionTokenAmount or the ethAmount of a pool that is Settled
\* or Liquidated.
C35_TerminalPoolFrozen ==
    /\ [](\A p \in Deployed :
            (lbp[p].settled \/ lbp[p].liquidated) => lbp[p].ethAmount = 0)
    /\ [][\A p \in Deployed :
            (lbp[p].settled \/ lbp[p].liquidated)
              => /\ lbp'[p].positionTokenAmount = lbp[p].positionTokenAmount
                 /\ lbp'[p].ethAmount = lbp[p].ethAmount
                 /\ (lbp'[p].settled \/ lbp'[p].liquidated)]_vars

\* C35 witness: a pool that held ETH was settled as the winner while traders
\* still own tokens of it and ETH to trade with, and another pool of the
\* round was liquidated
C35_Witness ==
    \E p, q \in Deployed :
       /\ lbp[p].settled /\ ~lbp[p].liquidated
       /\ lbp[q].liquidated
       /\ ev.op \in SettleOps /\ ev.winnerLbp = p /\ ev.dist > 0
       /\ lbp[p].positionTokenAmount > 0
       /\ \E u, v \in Users : pt[p].balances[u] > 0 /\ wallet[v] >= 2

\* C36: in every state of the curve and for every ethAmount, mintBctFor of
\* ethAmount for a trader followed at once by that trader's burnBct of the
\* whole minted amount pays out, when both succeed, at most ethAmount.
C36_RoundTripNoProfit ==
    \A u \in Users, e \in MintValues :
       \A m \in {bcMintBctFor(bc[1], u, e)} :
          m.ok => \A b \in {bcBurnBct(m.c, u, m.ret)} :
                     b.ok => b.ret <= e

\* C37: in every state the ETH the curve holds is at least what burnBct
\* would pay for the whole totalSupply.
C37_CurveSolvent ==
    \A c \in DeployedCurves :
       bc[c].eth >= calculateEthAmount(bc[c], bc[c].totalSupply)

\* C38: for every successful buy, the tokens it returns, valued at the
\* pool's getCurrentPrice() read just before the swap, are worth at most the
\* ETH sent minus the fee.
C38_BuyNotBelowSpot ==
    [][\A u \in Users, v \in SwapBuyValues :
          (lbp'[1] # lbp[1] /\ SwapBuy(u, 1, v))
          => (ev'.ret * lbpCurrentPrice(lbp[1], now)) \div PRECISION
                <= v - (v * lbp[1].swapFee) \div 10000]_vars

\* C39: for every pool, positionTokenAmount is at most the PositionToken
\* balance of the pool's address; the balances of the token add up to its
\* totalSupply, which never changes once the pool exists; hence the balances
\* of all other addresses add up to at most
\* totalSupply - positionTokenAmount, and the floor shares settleWinner
\* computes for the holders add up to at most 10000.
C39_TokenAccounting ==
    /\ [](\A p \in Deployed :
            LET tok == pt[p]
                ownedSupply == tok.totalSupply - lbp[p].positionTokenAmount
                winners == lbpWinners(tok, 1)
            IN /\ lbp[p].positionTokenAmount <= tok.balances[LBPA]
               /\ SumOver(tok.balances, TokenAddrs) = tok.totalSupply
               /\ SumOver(tok.balances, TokenAddrs \ {LBPA}) <= ownedSupply
               /\ ownedSupply > 0
                    => SumSeq(lbpFloorShares(tok, winners, ownedSupply)) <= 10000)
    /\ [][\A p \in Deployed : pt'[p].totalSupply = pt[p].totalSupply]_vars

\* C39 witness: tokens were sent to the pool's address outside a swap, so
\* that it holds more than positionTokenAmount, while a trader holds tokens
\* whose floor share is below 10000
C39_Witness ==
    \E p \in Deployed :
       LET tok == pt[p]
           ownedSupply == tok.totalSupply - lbp[p].positionTokenAmount
           winners == lbpWinners(tok, 1)
       IN /\ lbp[p].positionTokenAmount < tok.balances[LBPA]
          /\ Len(winners) > 0
          /\ SumSeq(lbpFloorShares(tok, winners, ownedSupply)) < 10000

====
